---- MODULE Spec2Model ----
(***************************************************************************)
(* Turn lifecycle of CodexMonitor: the thread state store, the turn        *)
(* command orchestrator (useThreadMessaging) and the turn event handlers   *)
(* (useThreadTurnEvents), together with the remote agent and the event     *)
(* feed they talk to.                                                      *)
(***************************************************************************)
EXTENDS Integers, Sequences, FiniteSets, TLC

\* ---------------------------------------------------------------- bounds
\* inputs over one run: user inputs (send, interrupt, review) and failures
\* reported by the agent (failed RPCs, turn errors)
MaxInputs == 3

\* ------------------------------------------------------------- constants
\* thread ids the store is keyed by; the user has ActiveThreadId open
Threads == {"t1", "t2"}
ActiveThreadId == "t1"
WorkspaceId == "ws1"

\* null (activeTurnIdByThread[threadId] ?? null)
Null == "null"
\* the empty string, as asString(turn?.id ?? "") yields it
EmptyId == ""
\* the placeholder interruptTurn uses when no turn id is known
PendingTurnId == "pending"

TurnNames == <<"turn-1", "turn-2", "turn-3", "turn-4", "turn-5", "turn-6">>
\* turn ids the server can assign within the bounds
TurnIds == {TurnNames[i] : i \in 1..MaxInputs}

SessionStopped == "Session stopped."
TurnFailed == "Turn failed."
TurnFailedToStart == "Turn failed to start."
\* message carried by a failing RPC or a turn-error payload
ErrorText == "rate limited"

\* ------------------------------------------------------------------ state
VARIABLES
    state,              \* ThreadState held by the store
    pendingInterruptsRef, \* pendingInterruptsRef.current
    interruptCalls,     \* calls of interruptTurnService made so far
    interruptsInFlight, \* positions in interruptCalls of the calls not settled
    rpc,                \* per thread, the start/review RPC in flight
    events,             \* per thread, the event feed (in causal order)
    running,            \* turns the agent is executing, as <<turn, thread>>
    nextTurn,           \* index of the next turn id the agent assigns
    inputs,             \* number of commands and agent failures so far
    lastOp,             \* the handler that ran last
    dispatched,         \* store mutations dispatched by that handler
    race,               \* where the latest send stands against interruptTurn
    staleInterrupt,     \* per thread, the send a pending interrupt predates
    useModels,          \* the useModels hook: its state, refs and requests
    useTransparencyPreference, \* the useTransparencyPreference hook
    localStorage,       \* the browser's localStorage
    useLiquidGlassEffect \* the useLiquidGlassEffect hook and the window

vars == <<state, pendingInterruptsRef, interruptCalls, interruptsInFlight, rpc,
          events, running,
          nextTurn, inputs, lastOp, dispatched, race, staleInterrupt,
          useModels, useTransparencyPreference, localStorage,
          useLiquidGlassEffect>>

\* the hooks outside the turn lifecycle
hookVars == <<useModels, useTransparencyPreference, localStorage,
              useLiquidGlassEffect>>

\* ------------------------------------------------------- thread state store
\* token usage of a thread; none is known before the first update
NoTokenUsage == [known |-> FALSE, total |-> 0, last |-> 0]

InitialThreadState ==
    [threads              |-> {},
     threadStatusById     |-> [t \in Threads |->
                                 [isProcessing |-> FALSE, isReviewing |-> FALSE]],
     activeTurnIdByThread |-> [t \in Threads |-> Null],
     itemsByThread        |-> [t \in Threads |-> <<>>],
     tokenUsageByThread   |-> [t \in Threads |-> NoTokenUsage]]

\* store mutation requests
Action(type, threadId, value) ==
    [type |-> type, threadId |-> threadId, value |-> value]

ensureThread(threadId) == Action("ensureThread", threadId, "")
markProcessing(threadId, isProcessing) ==
    Action("markProcessing", threadId, isProcessing)
markReviewing(threadId, isReviewing) ==
    Action("markReviewing", threadId, isReviewing)
setActiveTurnId(threadId, turnId) == Action("setActiveTurnId", threadId, turnId)
addAssistantMessage(threadId, text) ==
    Action("addAssistantMessage", threadId, text)
pushThreadErrorMessage(threadId, message) ==
    Action("addAssistantMessage", threadId, message)
upsertItem(threadId, text) == Action("upsertItem", threadId, text)
setThreadTimestamp(threadId) == Action("setThreadTimestamp", threadId, "")
setThreadTokenUsage(threadId, tokenUsage) ==
    Action("setThreadTokenUsage", threadId, tokenUsage)

\* (previous state, action) -> next state
threadReducer(s, a) ==
    CASE a.type = "ensureThread" ->
            [s EXCEPT !.threads = @ \cup {a.threadId}]
      [] a.type = "markProcessing" ->
            [s EXCEPT !.threadStatusById[a.threadId].isProcessing = a.value]
      [] a.type = "markReviewing" ->
            [s EXCEPT !.threadStatusById[a.threadId].isReviewing = a.value]
      [] a.type = "setActiveTurnId" ->
            [s EXCEPT !.activeTurnIdByThread[a.threadId] = a.value]
      [] a.type = "addAssistantMessage" ->
            [s EXCEPT !.itemsByThread[a.threadId] =
                Append(@, [role |-> "assistant", text |-> a.value])]
      [] a.type = "upsertItem" ->
            [s EXCEPT !.itemsByThread[a.threadId] =
                Append(@, [role |-> "user", text |-> a.value])]
      [] a.type = "setThreadTokenUsage" ->
            [s EXCEPT !.tokenUsageByThread[a.threadId] = a.value]
      [] OTHER -> s

RECURSIVE dispatchAll(_, _)
dispatchAll(s, actions) ==
    IF actions = <<>> THEN s
    ELSE dispatchAll(threadReducer(s, Head(actions)), Tail(actions))

\* ------------------------------------------------------- handler contexts
\* What a handler of the client reads and writes: the store, the pending
\* interrupt set and the interrupt RPCs it has issued.  `dispatched` lists the
\* store mutations of the run, `issued` the start/review RPC it sent and
\* `delivery` the delivery mode a review was requested with.
Client ==
    [state |-> state,
     pendingInterruptsRef |-> pendingInterruptsRef,
     interruptCalls |-> interruptCalls,
     interruptsInFlight |-> interruptsInFlight,
     dispatched |-> <<>>,
     issued |-> "none",
     delivery |-> "none"]

dispatch(c, actions) ==
    [c EXCEPT !.state = dispatchAll(@, actions),
              !.dispatched = @ \o actions]

interruptTurnService(c, threadId, turnId) ==
    [c EXCEPT !.interruptCalls =
        Append(@, [workspaceId |-> WorkspaceId, threadId |-> threadId,
                   turnId |-> turnId]),
              !.interruptsInFlight = @ \cup {Len(c.interruptCalls) + 1}]

Commit(c) ==
    /\ state' = c.state
    /\ pendingInterruptsRef' = c.pendingInterruptsRef
    /\ interruptCalls' = c.interruptCalls
    /\ interruptsInFlight' = c.interruptsInFlight
    /\ dispatched' = c.dispatched

\* what a handler found when it was invoked
NoPre ==
    [isProcessing |-> FALSE, isReviewing |-> FALSE, activeTurnId |-> Null,
     pending |-> FALSE, items |-> 0, calls |-> 0, tokenUsage |-> NoTokenUsage,
     inFlight |-> FALSE]
Pre(threadId) ==
    IF threadId = Null THEN NoPre
    ELSE [isProcessing |-> state.threadStatusById[threadId].isProcessing,
          isReviewing  |-> state.threadStatusById[threadId].isReviewing,
          activeTurnId |-> state.activeTurnIdByThread[threadId],
          pending      |-> threadId \in pendingInterruptsRef,
          items        |-> Len(state.itemsByThread[threadId]),
          calls        |-> Len(interruptCalls),
          tokenUsage   |-> state.tokenUsageByThread[threadId],
          inFlight     |-> FALSE]

\* an invocation of a handler: its name, its thread, the turn id it was given
Op(name, threadId, turnId) ==
    [op |-> name, threadId |-> threadId, turnId |-> turnId, pre |-> Pre(threadId)]
AgentOp(threadId) ==
    [op |-> "agent", threadId |-> threadId, turnId |-> Null, pre |-> NoPre]
\* an invocation of a handler of useTransparencyPreference
TransparencyOp(name) ==
    [op |-> name, threadId |-> Null, turnId |-> Null, pre |-> NoPre]
\* an invocation of a handler of useModels; inFlight is the guard it found
ModelsOp(name) ==
    [op |-> name, threadId |-> Null, turnId |-> Null,
     pre |-> [NoPre EXCEPT !.inFlight = useModels.inFlight]]

\* ------------------------------------------------------------ RPC plumbing
NoRpc ==
    [kind |-> "none", delivery |-> "none", phase |-> "none", outcome |-> "none",
     turnId |-> EmptyId]
SentRpc(kind, delivery) ==
    [kind |-> kind, delivery |-> delivery, phase |-> "sent", outcome |-> "none",
     turnId |-> EmptyId]
SettledRpc(request, outcome, turnId) ==
    [request EXCEPT !.phase = "settled", !.outcome = outcome, !.turnId = turnId]

Event(type, turnId, message, willRetry) ==
    [type |-> type, turnId |-> turnId, message |-> message, willRetry |-> willRetry]

\* ------------------------------------------------------- pure helpers
\* text inputs of the composer, and String.prototype.trim on them
Texts == {"  ", " hello ", "/prompts:missing"}
trim(text) ==
    CASE text = "  " -> ""
      [] text = " hello " -> "hello"
      [] OTHER -> text

\* expandCustomPromptText: neither field is set when the text names no prompt
ExpansionError == "Unknown prompt: missing"
expandCustomPromptText(text) ==
    CASE text = "/prompts:missing" -> [expanded |-> Null, error |-> ExpansionError]
      [] OTHER -> [expanded |-> Null, error |-> Null]

\* what the remote agent can answer to a start-turn or review-start RPC
StartOutcomes == {"ok", "noTurnId", "error", "nestedError", "reject"}
ReviewOutcomes == {"ok", "error", "nestedError", "reject"}

\* extractRpcErrorMessage: the error of a response, top level or under result
extractRpcErrorMessage(response) ==
    IF response.outcome \in {"error", "nestedError"} THEN ErrorText ELSE Null

TurnFailedToStartWith(rpcError) ==
    CASE rpcError = ErrorText -> "Turn failed to start: rate limited"
      [] OTHER -> "Turn failed to start: "
ReviewFailedToStartWith(rpcError) ==
    CASE rpcError = ErrorText -> "Review failed to start: rate limited"
      [] OTHER -> "Review failed to start: "
TurnFailedWith(message) ==
    CASE message = ErrorText -> "Turn failed: rate limited"
      [] OTHER -> "Turn failed: "

\* ------------------------------------------------- turn command orchestrator
\* sendMessageToThread that shows the optimistic item whenever the thread is
\* processing, steer mode or not
sendMessageToThread_IgnoresSteer(c, threadId, text, images, skipPromptExpansion, steerEnabled) ==
    LET messageText == trim(text)
        promptExpansion ==
            IF skipPromptExpansion THEN [expanded |-> Null, error |-> Null]
            ELSE expandCustomPromptText(messageText)
        finalText ==
            IF promptExpansion.expanded # Null
            THEN promptExpansion.expanded ELSE messageText
        wasProcessing == c.state.threadStatusById[threadId].isProcessing
        optimisticText ==
            IF finalText # "" THEN finalText
            ELSE IF images > 0 THEN "[image]" ELSE ""
        optimistic ==
            IF wasProcessing /\ optimisticText # ""
            THEN <<upsertItem(threadId, optimisticText)>> ELSE <<>>
    IN  IF messageText = "" /\ images = 0 THEN c
        ELSE IF promptExpansion.error # Null
        THEN dispatch(c, <<pushThreadErrorMessage(threadId, promptExpansion.error)>>)
        ELSE [dispatch(c, optimistic \o
                          <<setThreadTimestamp(threadId),
                            markProcessing(threadId, TRUE)>>)
                EXCEPT !.issued = "turn"]

\* sendMessageToThread that marks the thread processing only after the await
sendMessageToThread_MarksAfterAwait(c, threadId, text, images, skipPromptExpansion, steerEnabled) ==
    LET messageText == trim(text)
        promptExpansion ==
            IF skipPromptExpansion THEN [expanded |-> Null, error |-> Null]
            ELSE expandCustomPromptText(messageText)
        finalText ==
            IF promptExpansion.expanded # Null
            THEN promptExpansion.expanded ELSE messageText
        wasProcessing ==
            c.state.threadStatusById[threadId].isProcessing /\ steerEnabled
        optimisticText ==
            IF finalText # "" THEN finalText
            ELSE IF images > 0 THEN "[image]" ELSE ""
        optimistic ==
            IF wasProcessing /\ optimisticText # ""
            THEN <<upsertItem(threadId, optimisticText)>> ELSE <<>>
    IN  IF messageText = "" /\ images = 0 THEN c
        ELSE IF promptExpansion.error # Null
        THEN dispatch(c, <<pushThreadErrorMessage(threadId, promptExpansion.error)>>)
        ELSE [dispatch(c, optimistic \o <<setThreadTimestamp(threadId)>>)
                EXCEPT !.issued = "turn"]

\* sendMessageToThread, up to the await of the start-turn RPC
sendMessageToThread(c, threadId, text, images, skipPromptExpansion, steerEnabled) ==
    LET messageText == trim(text)
        promptExpansion ==
            IF skipPromptExpansion THEN [expanded |-> Null, error |-> Null]
            ELSE expandCustomPromptText(messageText)
        finalText ==
            IF promptExpansion.expanded # Null
            THEN promptExpansion.expanded ELSE messageText
        wasProcessing ==
            c.state.threadStatusById[threadId].isProcessing /\ steerEnabled
        optimisticText ==
            IF finalText # "" THEN finalText
            ELSE IF images > 0 THEN "[image]" ELSE ""
        optimistic ==
            IF wasProcessing /\ optimisticText # ""
            THEN <<upsertItem(threadId, optimisticText)>> ELSE <<>>
    IN  IF messageText = "" /\ images = 0 THEN c
        ELSE IF promptExpansion.error # Null
        THEN dispatch(c, <<pushThreadErrorMessage(threadId, promptExpansion.error)>>)
        ELSE [dispatch(c, optimistic \o
                          <<setThreadTimestamp(threadId),
                            markProcessing(threadId, TRUE)>>)
                EXCEPT !.issued = "turn"]

\* ensureThreadForActiveWorkspace: the open thread, Null when there is none
ensureThreadForActiveWorkspace(activeThreadId) == activeThreadId

\* sendUserMessage that expands no custom prompt before it sends
sendUserMessage_SkipsExpansion(c, activeThreadId, text, images, steerEnabled) ==
    LET messageText == trim(text)
        threadId == ensureThreadForActiveWorkspace(activeThreadId)
    IN  IF messageText = "" /\ images = 0 THEN c
        ELSE IF threadId = Null THEN c
        ELSE sendMessageToThread(c, threadId, messageText, images, TRUE,
                                 steerEnabled)

\* sendUserMessage: the composer sends to the open thread
sendUserMessage(c, activeThreadId, text, images, steerEnabled) ==
    LET messageText == trim(text)
        promptExpansion == expandCustomPromptText(messageText)
        finalText ==
            IF promptExpansion.expanded # Null
            THEN promptExpansion.expanded ELSE messageText
        threadId == ensureThreadForActiveWorkspace(activeThreadId)
    IN  IF messageText = "" /\ images = 0 THEN c
        ELSE IF promptExpansion.error # Null
        THEN IF activeThreadId # Null
             THEN dispatch(c, <<pushThreadErrorMessage(activeThreadId,
                                                       promptExpansion.error)>>)
             ELSE c
        ELSE IF threadId = Null THEN c
        ELSE sendMessageToThread(c, threadId, finalText, images, TRUE,
                                 steerEnabled)

\* startTurnSettled without the check for a missing turn id
startTurnSettled_NoIdCheck(c, threadId, response) ==
    LET rpcError == extractRpcErrorMessage(response)
        turnId == response.turnId
    IN  IF response.outcome = "reject"
        THEN dispatch(c, <<markProcessing(threadId, FALSE),
                           setActiveTurnId(threadId, Null),
                           pushThreadErrorMessage(threadId, ErrorText)>>)
        ELSE IF rpcError # Null
        THEN dispatch(c, <<markProcessing(threadId, FALSE),
                           setActiveTurnId(threadId, Null),
                           pushThreadErrorMessage(threadId,
                                                  TurnFailedToStartWith(rpcError))>>)
        ELSE dispatch(c, <<setActiveTurnId(threadId, turnId)>>)

\* startTurnSettled whose catch block only logs the rejection
startTurnSettled_SilentReject(c, threadId, response) ==
    LET rpcError == extractRpcErrorMessage(response)
        turnId == response.turnId
    IN  IF response.outcome = "reject"
        THEN dispatch(c, <<markProcessing(threadId, FALSE),
                           setActiveTurnId(threadId, Null)>>)
        ELSE IF rpcError # Null
        THEN dispatch(c, <<markProcessing(threadId, FALSE),
                           setActiveTurnId(threadId, Null),
                           pushThreadErrorMessage(threadId,
                                                  TurnFailedToStartWith(rpcError))>>)
        ELSE IF turnId = EmptyId
        THEN dispatch(c, <<markProcessing(threadId, FALSE),
                           setActiveTurnId(threadId, Null),
                           pushThreadErrorMessage(threadId, TurnFailedToStart)>>)
        ELSE dispatch(c, <<setActiveTurnId(threadId, turnId)>>)

\* startTurnSettled that does not record the turn id of a successful response
startTurnSettled_DropsTurnId(c, threadId, response) ==
    LET rpcError == extractRpcErrorMessage(response)
        turnId == response.turnId
    IN  IF response.outcome = "reject"
        THEN dispatch(c, <<markProcessing(threadId, FALSE),
                           setActiveTurnId(threadId, Null),
                           pushThreadErrorMessage(threadId, ErrorText)>>)
        ELSE IF rpcError # Null
        THEN dispatch(c, <<markProcessing(threadId, FALSE),
                           setActiveTurnId(threadId, Null),
                           pushThreadErrorMessage(threadId,
                                                  TurnFailedToStartWith(rpcError))>>)
        ELSE IF turnId = EmptyId
        THEN dispatch(c, <<markProcessing(threadId, FALSE),
                           setActiveTurnId(threadId, Null),
                           pushThreadErrorMessage(threadId, TurnFailedToStart)>>)
        ELSE c

\* sendMessageToThread, from the settlement of the start-turn RPC on
startTurnSettled(c, threadId, response) ==
    LET rpcError == extractRpcErrorMessage(response)
        turnId == response.turnId
    IN  IF response.outcome = "reject"
        THEN dispatch(c, <<markProcessing(threadId, FALSE),
                           setActiveTurnId(threadId, Null),
                           pushThreadErrorMessage(threadId, ErrorText)>>)
        ELSE IF rpcError # Null
        THEN dispatch(c, <<markProcessing(threadId, FALSE),
                           setActiveTurnId(threadId, Null),
                           pushThreadErrorMessage(threadId,
                                                  TurnFailedToStartWith(rpcError))>>)
        ELSE IF turnId = EmptyId
        THEN dispatch(c, <<markProcessing(threadId, FALSE),
                           setActiveTurnId(threadId, Null),
                           pushThreadErrorMessage(threadId, TurnFailedToStart)>>)
        ELSE dispatch(c, <<setActiveTurnId(threadId, turnId)>>)

\* interruptTurn that does not remember an interrupt it cannot address yet
interruptTurn_NeverQueues(c, activeThreadId) ==
    IF activeThreadId = Null THEN c
    ELSE LET activeTurnId == c.state.activeTurnIdByThread[activeThreadId]
             turnId == IF activeTurnId = Null THEN PendingTurnId ELSE activeTurnId
             stopped == dispatch(c, <<markProcessing(activeThreadId, FALSE),
                                      setActiveTurnId(activeThreadId, Null),
                                      addAssistantMessage(activeThreadId,
                                                          SessionStopped)>>)
         IN  interruptTurnService(stopped, activeThreadId, turnId)

\* interruptTurn that queues the interrupt even when the turn id is known
interruptTurn_AlwaysQueues(c, activeThreadId) ==
    IF activeThreadId = Null THEN c
    ELSE LET activeTurnId == c.state.activeTurnIdByThread[activeThreadId]
             turnId == IF activeTurnId = Null THEN PendingTurnId ELSE activeTurnId
             stopped == dispatch(c, <<markProcessing(activeThreadId, FALSE),
                                      setActiveTurnId(activeThreadId, Null),
                                      addAssistantMessage(activeThreadId,
                                                          SessionStopped)>>)
             queued ==
                 [stopped EXCEPT !.pendingInterruptsRef = @ \cup {activeThreadId}]
         IN  interruptTurnService(queued, activeThreadId, turnId)

\* interruptTurn on the active thread (Null when there is none)
interruptTurn(c, activeThreadId) ==
    IF activeThreadId = Null THEN c
    ELSE LET activeTurnId == c.state.activeTurnIdByThread[activeThreadId]
             turnId == IF activeTurnId = Null THEN PendingTurnId ELSE activeTurnId
             stopped == dispatch(c, <<markProcessing(activeThreadId, FALSE),
                                      setActiveTurnId(activeThreadId, Null),
                                      addAssistantMessage(activeThreadId,
                                                          SessionStopped)>>)
             queued ==
                 IF activeTurnId \in {Null, EmptyId}
                 THEN [stopped EXCEPT !.pendingInterruptsRef = @ \cup {activeThreadId}]
                 ELSE stopped
         IN  interruptTurnService(queued, activeThreadId, turnId)

\* interruptTurnSettled that takes a rejected interrupt for a turn still running
interruptTurnSettled_RevertsOnReject(c, call, rejected) ==
    LET threadId == c.interruptCalls[call].threadId
        settled == [c EXCEPT !.interruptsInFlight = @ \ {call}]
    IN  IF rejected
        THEN dispatch(settled, <<markProcessing(threadId, TRUE)>>)
        ELSE settled

\* interruptTurn, from the settlement of the interrupt RPC on: the response
\* and the rejection are only reported to onDebug.  The interrupt RPC that
\* onTurnStarted issues is not awaited and its rejection is swallowed.
interruptTurnSettled(c, call, rejected) ==
    [c EXCEPT !.interruptsInFlight = @ \ {call}]

\* startReview, up to the await of the review-start RPC
startReview(c, threadId, text) ==
    IF trim(text) = "" THEN c
    ELSE [dispatch(c, <<markProcessing(threadId, TRUE),
                        markReviewing(threadId, TRUE)>>)
            EXCEPT !.issued = "review", !.delivery = "inline"]

\* startReviewSettled whose catch block leaves the thread reviewing
startReviewSettled_KeepsReviewingOnReject(c, threadId, response) ==
    LET rpcError == extractRpcErrorMessage(response)
    IN  IF response.outcome = "reject"
        THEN dispatch(c, <<markProcessing(threadId, FALSE),
                           pushThreadErrorMessage(threadId, ErrorText)>>)
        ELSE IF rpcError # Null
        THEN dispatch(c, <<markProcessing(threadId, FALSE),
                           markReviewing(threadId, FALSE),
                           setActiveTurnId(threadId, Null),
                           pushThreadErrorMessage(threadId,
                                                  ReviewFailedToStartWith(rpcError))>>)
        ELSE c

\* startReview, from the settlement of the review-start RPC on
startReviewSettled(c, threadId, response) ==
    LET rpcError == extractRpcErrorMessage(response)
    IN  IF response.outcome = "reject"
        THEN dispatch(c, <<markProcessing(threadId, FALSE),
                           markReviewing(threadId, FALSE),
                           pushThreadErrorMessage(threadId, ErrorText)>>)
        ELSE IF rpcError # Null
        THEN dispatch(c, <<markProcessing(threadId, FALSE),
                           markReviewing(threadId, FALSE),
                           setActiveTurnId(threadId, Null),
                           pushThreadErrorMessage(threadId,
                                                  ReviewFailedToStartWith(rpcError))>>)
        ELSE c

\* ------------------------------------------------------ turn event handlers
\* onTurnStarted that shows the turn as running before it interrupts it
onTurnStarted_MarksBeforePending(c, threadId, turnId) ==
    LET ensured == dispatch(c, <<ensureThread(threadId),
                                 markProcessing(threadId, TRUE)>>)
    IN  IF threadId \in c.pendingInterruptsRef
        THEN LET consumed ==
                     [ensured EXCEPT !.pendingInterruptsRef = @ \ {threadId}]
             IN  IF turnId # EmptyId
                 THEN interruptTurnService(consumed, threadId, turnId)
                 ELSE consumed
        ELSE dispatch(ensured,
                      (IF turnId # EmptyId
                       THEN <<setActiveTurnId(threadId, turnId)>> ELSE <<>>))

\* onTurnStarted that keeps an active turn id it finds recorded
onTurnStarted_KeepsPriorTurn(c, threadId, turnId) ==
    LET ensured == dispatch(c, <<ensureThread(threadId)>>)
    IN  IF threadId \in c.pendingInterruptsRef
        THEN LET consumed ==
                     [ensured EXCEPT !.pendingInterruptsRef = @ \ {threadId}]
             IN  IF turnId # EmptyId
                 THEN interruptTurnService(consumed, threadId, turnId)
                 ELSE consumed
        ELSE dispatch(ensured,
                      <<markProcessing(threadId, TRUE)>> \o
                      (IF turnId # EmptyId
                          /\ c.state.activeTurnIdByThread[threadId] = Null
                       THEN <<setActiveTurnId(threadId, turnId)>> ELSE <<>>))

onTurnStarted(c, threadId, turnId) ==
    LET ensured == dispatch(c, <<ensureThread(threadId)>>)
    IN  IF threadId \in c.pendingInterruptsRef
        THEN LET consumed ==
                     [ensured EXCEPT !.pendingInterruptsRef = @ \ {threadId}]
             IN  IF turnId # EmptyId
                 THEN interruptTurnService(consumed, threadId, turnId)
                 ELSE consumed
        ELSE dispatch(ensured,
                      <<markProcessing(threadId, TRUE)>> \o
                      (IF turnId # EmptyId
                       THEN <<setActiveTurnId(threadId, turnId)>> ELSE <<>>))

\* onTurnCompleted that empties the pending-interrupt set
onTurnCompleted_ClearsAllPending(c, threadId, turnId) ==
    [dispatch(c, <<markProcessing(threadId, FALSE),
                   setActiveTurnId(threadId, Null)>>)
       EXCEPT !.pendingInterruptsRef = {}]

\* onTurnCompleted without the cleanup of the pending interrupt
onTurnCompleted_KeepsPending(c, threadId, turnId) ==
    dispatch(c, <<markProcessing(threadId, FALSE),
                  setActiveTurnId(threadId, Null)>>)

onTurnCompleted(c, threadId, turnId) ==
    [dispatch(c, <<markProcessing(threadId, FALSE),
                   setActiveTurnId(threadId, Null)>>)
       EXCEPT !.pendingInterruptsRef = @ \ {threadId}]

\* onTurnError that formats the message without looking whether there is one
onTurnError_AlwaysPrefixes(c, threadId, turnId, payload) ==
    IF payload.willRetry THEN c
    ELSE dispatch(c, <<ensureThread(threadId),
                       markProcessing(threadId, FALSE),
                       markReviewing(threadId, FALSE),
                       setActiveTurnId(threadId, Null),
                       pushThreadErrorMessage(threadId,
                           TurnFailedWith(payload.message))>>)

\* token usage payloads of the feed: a payload carries some of the counters
TokenUsagePayloads ==
    {[present |-> {"total"}, total |-> 3, last |-> 0],
     [present |-> {"last"}, total |-> 0, last |-> 2],
     [present |-> {"total", "last"}, total |-> 5, last |-> 1]}

\* normalizeTokenUsage: a counter the payload does not carry is zero
normalizeTokenUsage(tokenUsage) ==
    [known |-> TRUE,
     total |-> IF "total" \in tokenUsage.present THEN tokenUsage.total ELSE 0,
     last  |-> IF "last" \in tokenUsage.present THEN tokenUsage.last ELSE 0]

\* onThreadTokenUsageUpdated that keeps the stored counters the payload
\* does not carry
onThreadTokenUsageUpdated_Merges(c, threadId, tokenUsage) ==
    LET stored == c.state.tokenUsageByThread[threadId]
    IN  dispatch(c, <<ensureThread(threadId),
                      setThreadTokenUsage(threadId,
                          [known |-> TRUE,
                           total |-> IF "total" \in tokenUsage.present
                                     THEN tokenUsage.total ELSE stored.total,
                           last  |-> IF "last" \in tokenUsage.present
                                     THEN tokenUsage.last ELSE stored.last])>>)

onThreadTokenUsageUpdated(c, threadId, tokenUsage) ==
    dispatch(c, <<ensureThread(threadId),
                  setThreadTokenUsage(threadId, normalizeTokenUsage(tokenUsage))>>)

\* onTurnError without the early return on willRetry
onTurnError_IgnoresWillRetry(c, threadId, turnId, payload) ==
    dispatch(c, <<ensureThread(threadId),
                  markProcessing(threadId, FALSE),
                  markReviewing(threadId, FALSE),
                  setActiveTurnId(threadId, Null),
                  pushThreadErrorMessage(threadId,
                      IF payload.message # "" THEN TurnFailedWith(payload.message)
                      ELSE TurnFailed)>>)

onTurnError(c, threadId, turnId, payload) ==
    IF payload.willRetry THEN c
    ELSE dispatch(c, <<ensureThread(threadId),
                       markProcessing(threadId, FALSE),
                       markReviewing(threadId, FALSE),
                       setActiveTurnId(threadId, Null),
                       pushThreadErrorMessage(threadId,
                           IF payload.message # "" THEN TurnFailedWith(payload.message)
                           ELSE TurnFailed)>>)

\* the handler the event feed invokes for an event
handleEvent(c, threadId, event) ==
    CASE event.type = "turn-started" -> onTurnStarted(c, threadId, event.turnId)
      [] event.type = "turn-completed" -> onTurnCompleted(c, threadId, event.turnId)
      [] event.type = "turn-error" ->
            onTurnError(c, threadId, event.turnId,
                        [message |-> event.message, willRetry |-> event.willRetry])

\* ------------------------------------------------------- send/interrupt race
\* `race` follows one send on a thread that was at rest: whether its start RPC
\* has settled with a turn id, whether its turn-started has been delivered,
\* and at which of these points interruptTurn was invoked.  Anything else
\* happening to the thread ends the observation.
RaceOff ==
    [live |-> FALSE, threadId |-> Null, turnId |-> Null, settled |-> FALSE,
     started |-> FALSE, interrupt |-> "none", callsBefore |-> 0]

AtRest(threadId) ==
    /\ ~state.threadStatusById[threadId].isProcessing
    /\ state.activeTurnIdByThread[threadId] = Null
    /\ threadId \notin pendingInterruptsRef
    /\ rpc[threadId] = NoRpc
    /\ events[threadId] = <<>>
    /\ ~\E turn \in running : turn[2] = threadId

RaceSent(threadId) ==
    [RaceOff EXCEPT !.live = TRUE, !.threadId = threadId,
                    !.callsBefore = Len(interruptCalls)]

RaceInterrupted ==
    [race EXCEPT !.interrupt =
        IF race.settled /\ race.started THEN "afterBoth"
        ELSE IF race.settled THEN "afterSettled"
        ELSE IF race.started THEN "afterStarted"
        ELSE "first"]

\* ------------------------------------------------- age of pending interrupts
\* `staleInterrupt` tells, for a thread in the pending-interrupt set, whether
\* a sendMessage has issued its start RPC since interruptTurn last queued the
\* thread: "no", "sent" while that RPC is unanswered, then the id of the
\* turn the agent started for it.  `how` is what the handler that ran did for
\* the thread: "queue" (interruptTurn queued it), "send" (a start RPC was
\* issued) or "other".
Staleness(threadId, how) ==
    IF threadId = Null THEN staleInterrupt
    ELSE [staleInterrupt EXCEPT ![threadId] =
            IF threadId \notin pendingInterruptsRef' \/ how = "queue" THEN "no"
            ELSE IF how = "send" THEN "sent"
            ELSE @]

\* ---------------------------------------------------------------- useModels
\* JavaScript's falsy test on a string or null
Falsy(value) == value = Null \/ value = ""

\* workspaces the user can open
WorkspaceIds == {WorkspaceId, "ws2"}

\* the model refreshModels prefers as the default
PreferredDefaultModel == "gpt-5.2-codex"

\* Items of a model/list response as the server sends them; `present` names
\* the fields an item carries.
AllModelFields ==
    {"id", "model", "supportedReasoningEfforts", "defaultReasoningEffort",
     "isDefault"}
RawGptA ==
    [present |-> AllModelFields, id |-> "a", model |-> "gpt-a",
     supportedReasoningEfforts |-> {"low", "high"},
     defaultReasoningEffort |-> "low", isDefault |-> TRUE]
RawGptB ==
    [present |-> {"model", "supportedReasoningEfforts"}, id |-> "",
     model |-> "b", supportedReasoningEfforts |-> {"high"},
     defaultReasoningEffort |-> "", isDefault |-> FALSE]
RawCodex ==
    [present |-> AllModelFields, id |-> "c", model |-> PreferredDefaultModel,
     supportedReasoningEfforts |-> {"high"},
     defaultReasoningEffort |-> "high", isDefault |-> FALSE]

\* what getModelList can settle with: a list, or a rejection
ModelListOutcomes ==
    {[threw |-> FALSE, data |-> data] :
        data \in {<<>>, <<RawGptB>>, <<RawGptA, RawGptB>>,
                  <<RawGptB, RawGptA, RawCodex>>}}
    \cup {[threw |-> TRUE, data |-> <<>>]}

\* no model (find(...) ?? null)
NoModel ==
    [id |-> Null, model |-> Null, supportedReasoningEfforts |-> {},
     defaultReasoningEffort |-> Null, isDefault |-> FALSE]

\* one item of the response as a ModelOption
modelOption(item) ==
    [id |-> IF "id" \in item.present THEN item.id
            ELSE IF "model" \in item.present THEN item.model ELSE "",
     model |-> IF "model" \in item.present THEN item.model
               ELSE IF "id" \in item.present THEN item.id ELSE "",
     supportedReasoningEfforts |->
        IF "supportedReasoningEfforts" \in item.present
        THEN item.supportedReasoningEfforts ELSE {},
     defaultReasoningEffort |->
        IF "defaultReasoningEffort" \in item.present
        THEN item.defaultReasoningEffort ELSE "",
     isDefault |-> IF "isDefault" \in item.present THEN item.isDefault ELSE FALSE]

RECURSIVE modelOptions(_)
modelOptions(rawData) ==
    IF rawData = <<>> THEN <<>>
    ELSE <<modelOption(Head(rawData))>> \o modelOptions(Tail(rawData))

\* Array.prototype.find: the first of the elements passing a test, given as
\* the positions that pass it, or null
find(data, passing) ==
    IF passing = {} THEN NoModel
    ELSE data[CHOOSE i \in passing : \A j \in passing : i <= j]
\* the tests refreshModels and the effects search the list with
WithId(data, id) == {i \in 1..Len(data) : data[i].id = id}
WithModel(data, model) == {i \in 1..Len(data) : data[i].model = model}
IsDefault(data) == {i \in 1..Len(data) : data[i].isDefault}

\* a ?? b on models
Coalesce(a, b) == IF a # NoModel THEN a ELSE b

\* the hook after its first render with no workspace open
InitialModels ==
    [models |-> <<>>, selectedModelId |-> Null, selectedEffort |-> Null,
     lastFetchedWorkspaceId |-> Null, inFlight |-> FALSE,
     workspaceId |-> Null, isConnected |-> FALSE,
     preferredModelId |-> Null, preferredEffort |-> Null,
     requests |-> <<>>]

selectedModel(h) == find(h.models, WithId(h.models, h.selectedModelId))

reasoningOptions(h) == selectedModel(h).supportedReasoningEfforts

\* what a refreshModels callback closes over: the values of its render
Closure(h) ==
    [workspaceId |-> h.workspaceId, selectedModelId |-> h.selectedModelId,
     selectedEffort |-> h.selectedEffort,
     preferredModelId |-> h.preferredModelId,
     preferredEffort |-> h.preferredEffort]

\* refreshModels without its in-flight guard
refreshModels_Unguarded(h) ==
    IF Falsy(h.workspaceId) \/ ~h.isConnected THEN h
    ELSE [h EXCEPT !.inFlight = TRUE, !.requests = Append(@, Closure(h))]

\* refreshModels up to its await: `requests` lists the getModelList calls
\* that have not settled, each with the closure it will resume in
refreshModels(h) ==
    IF Falsy(h.workspaceId) \/ ~h.isConnected THEN h
    ELSE IF h.inFlight THEN h
    ELSE [h EXCEPT !.inFlight = TRUE, !.requests = Append(@, Closure(h))]

Remove(seq, i) == SubSeq(seq, 1, i - 1) \o SubSeq(seq, i + 1, Len(seq))

\* the effort refreshModels and the preference effect choose for a model
nextEffort(selection, selectedEffort, preferredEffort) ==
    IF ~Falsy(selectedEffort)
       /\ selectedEffort \in selection.supportedReasoningEfforts
    THEN selectedEffort
    ELSE IF ~Falsy(preferredEffort)
            /\ preferredEffort \in selection.supportedReasoningEfforts
    THEN preferredEffort
    ELSE selection.defaultReasoningEffort

\* refreshModels from its await on, for the request at position `call`
refreshModelsSettled(h, call, response) ==
    LET r == h.requests[call]
        data == modelOptions(response.data)
        preferredModel ==
            find(data, WithModel(data, PreferredDefaultModel))
        defaultModel ==
            Coalesce(preferredModel,
                Coalesce(find(data, IsDefault(data)),
                         IF data # <<>> THEN data[1] ELSE NoModel))
        existingSelection ==
            find(data, WithId(data, r.selectedModelId))
        preferredSelection ==
            find(data, WithId(data, r.preferredModelId))
        nextSelection ==
            Coalesce(existingSelection,
                     Coalesce(preferredSelection, defaultModel))
        released == [h EXCEPT !.inFlight = FALSE, !.requests = Remove(@, call)]
        fetched == [released EXCEPT !.models = data,
                                    !.lastFetchedWorkspaceId = r.workspaceId]
    IN  IF response.threw THEN released
        ELSE IF nextSelection = NoModel THEN fetched
        ELSE [fetched EXCEPT
                !.selectedModelId = nextSelection.id,
                !.selectedEffort =
                    nextEffort(nextSelection, r.selectedEffort,
                               r.preferredEffort)]

\* the dependencies of the effect that fetches the list
refreshDeps(h) ==
    <<h.isConnected, Len(h.models), h.workspaceId, h.preferredEffort,
      h.preferredModelId, h.selectedEffort, h.selectedModelId>>

\* the effect that fetches the list of a workspace not fetched yet; `render`
\* is the render the effect belongs to, `h` the hook it acts on
refreshEffect(prev, render, h) ==
    IF refreshDeps(prev) = refreshDeps(render) THEN h
    ELSE IF Falsy(render.workspaceId) \/ ~render.isConnected THEN h
    ELSE IF h.lastFetchedWorkspaceId = render.workspaceId
            /\ Len(render.models) > 0 THEN h
    ELSE refreshModels(h)

\* the effect that keeps the effort one the selected model supports
effortEffect(render, h) ==
    LET model == selectedModel(render)
    IN  IF model = NoModel THEN h
        ELSE IF ~Falsy(render.selectedEffort)
                /\ render.selectedEffort \in model.supportedReasoningEfforts
        THEN h
        ELSE [h EXCEPT !.selectedEffort = model.defaultReasoningEffort]

\* the effect that applies the preferred model and effort
preferenceEffect(render, h) ==
    LET preferredSelection ==
            IF ~Falsy(render.preferredModelId)
            THEN find(render.models,
                      WithId(render.models, render.preferredModelId))
            ELSE NoModel
        hasSelection ==
            IF ~Falsy(render.selectedModelId)
            THEN \E i \in 1..Len(render.models) :
                    render.models[i].id = render.selectedModelId
            ELSE FALSE
    IN  IF render.models = <<>> THEN h
        ELSE IF preferredSelection = NoModel THEN h
        ELSE IF ~hasSelection
        THEN [h EXCEPT
                !.selectedModelId = preferredSelection.id,
                !.selectedEffort =
                    nextEffort(preferredSelection, Null,
                               render.preferredEffort)]
        ELSE IF render.selectedModelId # preferredSelection.id
                \/ Falsy(render.preferredEffort) THEN h
        ELSE IF render.preferredEffort
                    \notin preferredSelection.supportedReasoningEfforts THEN h
        ELSE IF Falsy(render.selectedEffort)
        THEN [h EXCEPT !.selectedEffort = render.preferredEffort]
        ELSE h

\* the effects of one render, in the order the hook declares them
effects(prev, render) ==
    preferenceEffect(render,
        effortEffect(render, refreshEffect(prev, render, render)))

\* the state a render shows
Rendered(h) ==
    <<h.models, h.selectedModelId, h.selectedEffort, h.workspaceId,
      h.isConnected, h.preferredModelId, h.preferredEffort>>

\* renders and their effects until no effect changes the state
RECURSIVE settleEffects(_, _)
settleEffects(prev, render) ==
    LET h == effects(prev, render)
    IN  IF Rendered(h) = Rendered(render) THEN h ELSE settleEffects(render, h)

\* ------------------------------------------------ useTransparencyPreference
TransparencyModes == {"glass", "blur", "reduced"}

isTransparencyMode(value) == value \in TransparencyModes

\* what localStorage can hold under the two keys when the hook mounts
StoredTransparencyModes == TransparencyModes \cup {Null, "opaque"}
StoredReduceTransparency == {Null, "true", "false"}
\* the storage of a first launch
EmptyStorage == [transparencyMode |-> Null, reduceTransparency |-> Null]

readStoredTransparency(storage) ==
    IF isTransparencyMode(storage.transparencyMode)
    THEN [mode |-> storage.transparencyMode, hasStoredPreference |-> TRUE]
    ELSE IF storage.reduceTransparency = "true"
    THEN [mode |-> "reduced", hasStoredPreference |-> TRUE]
    ELSE [mode |-> "blur", hasStoredPreference |-> FALSE]

\* glassSupported: null until a check has told
GlassUnknown == [known |-> FALSE, supported |-> FALSE]
GlassSupport(supported) == [known |-> TRUE, supported |-> supported]

\* how isGlassSupported() can settle
GlassCheckOutcomes == {"true", "false", "rejected"}

\* the effect that starts a support check: the cleanup of the previous run
\* cancels its check, the new run starts one closed over its render.
\* `checks` lists the isGlassSupported() calls that have not settled.
checkSupportEffect(h) ==
    [h EXCEPT !.checks =
        [i \in 1..Len(@) |-> [@[i] EXCEPT !.cancelled = TRUE]]
        \o <<[mode |-> h.mode, hasStoredPreference |-> h.hasStoredPreference,
              cancelled |-> FALSE]>>]

\* the hook after useState(() => readStoredTransparency()), before effects;
\* `choice` is the mode the user chose last or storage held, null if neither
useTransparencyPreferenceState(storage) ==
    [mode |-> readStoredTransparency(storage).mode,
     hasStoredPreference |-> readStoredTransparency(storage).hasStoredPreference,
     glassSupported |-> GlassUnknown,
     checks |-> <<>>,
     choice |-> IF readStoredTransparency(storage).hasStoredPreference
                THEN readStoredTransparency(storage).mode ELSE Null]

\* the effects of a render that follows `prev`: the mode is stored when it
\* changed, the support check restarts when mode or hasStoredPreference did
transparencyEffects(prev, h) ==
    IF prev.mode = h.mode /\ prev.hasStoredPreference = h.hasStoredPreference
    THEN h
    ELSE checkSupportEffect(h)

storeMode(prev, h, storage) ==
    IF prev.mode = h.mode THEN storage
    ELSE [storage EXCEPT !.transparencyMode = h.mode]

setTransparencyMode(h, next) ==
    [h EXCEPT !.mode = next, !.hasStoredPreference = TRUE, !.choice = next]

\* checkSupport without its cancelled tests
checkSupportSettled_IgnoresCancel(h, check, outcome) ==
    LET c == h.checks[check]
        supported == outcome = "true"
        settled == [h EXCEPT !.checks = Remove(@, check)]
        told == [settled EXCEPT !.glassSupported = GlassSupport(supported)]
        fallback ==
            IF ~supported /\ c.mode = "glass"
            THEN [told EXCEPT !.mode = "blur",
                              !.hasStoredPreference = c.hasStoredPreference]
            ELSE told
    IN  IF outcome = "rejected"
        THEN [settled EXCEPT !.glassSupported = GlassSupport(FALSE)]
        ELSE IF ~c.hasStoredPreference /\ supported /\ c.mode # "glass"
        THEN [fallback EXCEPT !.mode = "glass", !.hasStoredPreference = FALSE]
        ELSE fallback

\* checkSupport from its await on, for the check at position `check`
checkSupportSettled(h, check, outcome) ==
    LET c == h.checks[check]
        supported == outcome = "true"
        settled == [h EXCEPT !.checks = Remove(@, check)]
        told == [settled EXCEPT !.glassSupported = GlassSupport(supported)]
        fallback ==
            IF ~supported /\ c.mode = "glass"
            THEN [told EXCEPT !.mode = "blur",
                              !.hasStoredPreference = c.hasStoredPreference]
            ELSE told
    IN  IF c.cancelled THEN settled
        ELSE IF outcome = "rejected"
        THEN [settled EXCEPT !.glassSupported = GlassSupport(FALSE)]
        ELSE IF ~c.hasStoredPreference /\ supported /\ c.mode # "glass"
        THEN [fallback EXCEPT !.mode = "glass", !.hasStoredPreference = FALSE]
        ELSE fallback

availableModes(h) ==
    IF h.glassSupported.known /\ h.glassSupported.supported
    THEN <<"glass", "blur", "reduced">>
    ELSE <<"blur", "reduced">>

\* the hook and the storage once it has mounted over `storage`
MountTransparency(storage) ==
    /\ useTransparencyPreference =
          checkSupportEffect(useTransparencyPreferenceState(storage))
    /\ localStorage =
          [storage EXCEPT !.transparencyMode =
                              readStoredTransparency(storage).mode]

\* ----------------------------------------------------- useLiquidGlassEffect
\* window.setEffects({ effects: [] }) and ({ effects: [Effect.HudWindow] })
NoWindowEffects == "none"
HudWindow == "hudWindow"

\* The hook before its effect has run, for a window with nothing applied.
\* `runs` lists the apply() runs that have not finished, each with the mode
\* and the cancelled flag of its effect run and the await it is suspended at;
\* `hudPlatform` tells whether the user agent names Macintosh or Linux.
\* Runs are numbered in the order they start: `caller` is the run that made
\* the latest effect call, `newest` the latest run that has made its last.
InitialLiquidGlass(transparencyMode, hudPlatform) ==
    [transparencyMode |-> transparencyMode,
     supportedRef |-> GlassUnknown,
     runs |-> <<>>,
     window |-> [effects |-> NoWindowEffects, liquidGlass |-> FALSE],
     hudPlatform |-> hudPlatform,
     started |-> 0, caller |-> 0, newest |-> 0]

\* supportedRef.current as a condition
glassIsSupported(g) == g.supportedRef.known /\ g.supportedRef.supported

\* an effect call of a run reaches the window
called(g, run) == [g EXCEPT !.caller = g.runs[run].seq]
setEffects(g, run, windowEffects) ==
    [called(g, run) EXCEPT !.window.effects = windowEffects]
setLiquidGlassEffect(g, run, enabled) ==
    [called(g, run) EXCEPT !.window.liquidGlass = enabled]

\* a run waits at an await ("return": the await of its last call), or returns
suspend(g, run, at) ==
    [g EXCEPT !.runs[run].at = at,
              !.newest = IF at = "return" /\ g.runs[run].seq > @
                         THEN g.runs[run].seq ELSE @]
finish(g, run) == [g EXCEPT !.runs = Remove(@, run)]

\* apply() from the user agent test on
applyEffects(g, run) ==
    LET mode == g.runs[run].transparencyMode
    IN  IF mode = "reduced"
        THEN suspend(setEffects(g, run, NoWindowEffects), run, "return")
        ELSE IF glassIsSupported(g) /\ mode = "glass"
        THEN suspend(setEffects(g, run, NoWindowEffects), run, "cleared")
        ELSE IF ~g.hudPlatform THEN finish(g, run)
        ELSE suspend(setEffects(g, run, HudWindow), run, "return")

\* apply() from its cancelled test on
applyChecked(g, run) ==
    IF g.runs[run].cancelled THEN finish(g, run)
    ELSE IF glassIsSupported(g) /\ g.runs[run].transparencyMode # "glass"
    THEN suspend(setLiquidGlassEffect(g, run, FALSE), run, "disabled")
    ELSE applyEffects(g, run)

\* the effect runs for a mode: the cleanup of the previous run sets its
\* cancelled flag, apply() starts and runs to its first await
applyEffect(g, transparencyMode) ==
    LET started ==
            [g EXCEPT
                !.transparencyMode = transparencyMode,
                !.started = @ + 1,
                !.runs =
                    [i \in 1..Len(@) |-> [@[i] EXCEPT !.cancelled = TRUE]]
                    \o <<[transparencyMode |-> transparencyMode,
                          cancelled |-> FALSE, at |-> "isGlassSupported",
                          seq |-> g.started + 1]>>]
    IN  IF ~g.supportedRef.known THEN started
        ELSE applyChecked(started, Len(started.runs))

\* the await a run is suspended at settles and the run goes on
applyResumed(g, run, outcome) ==
    LET at == g.runs[run].at
    IN  IF at = "isGlassSupported"
        THEN IF outcome = "rejected" THEN finish(g, run)
             ELSE applyChecked(
                      [g EXCEPT !.supportedRef = GlassSupport(outcome = "true")],
                      run)
        ELSE IF at = "disabled" THEN applyEffects(g, run)
        ELSE IF at = "cleared"
        THEN suspend(setLiquidGlassEffect(g, run, TRUE), run, "return")
        ELSE finish(g, run)

\* the hook once it has mounted with a mode
MountLiquidGlass(transparencyMode, hudPlatform) ==
    useLiquidGlassEffect =
        applyEffect(InitialLiquidGlass(transparencyMode, hudPlatform),
                    transparencyMode)

\* ------------------------------------------------------------------ actions
\* nothing sent, no workspace open
InitLifecycle ==
    /\ state = InitialThreadState
    /\ pendingInterruptsRef = {}
    /\ interruptCalls = <<>>
    /\ interruptsInFlight = {}
    /\ rpc = [t \in Threads |-> NoRpc]
    /\ events = [t \in Threads |-> <<>>]
    /\ running = {}
    /\ nextTurn = 1
    /\ inputs = 0
    /\ lastOp = Op("init", Null, Null)
    /\ dispatched = <<>>
    /\ race = RaceOff
    /\ staleInterrupt = [t \in Threads |-> "no"]
    /\ useModels = InitialModels

\* a first launch
Init ==
    /\ InitLifecycle
    /\ MountTransparency(EmptyStorage)
    /\ MountLiquidGlass("blur", TRUE)

\* a launch over whatever an earlier session left in localStorage
InitStored ==
    /\ InitLifecycle
    /\ \E transparencyMode \in StoredTransparencyModes,
          reduceTransparency \in StoredReduceTransparency :
          MountTransparency([transparencyMode |-> transparencyMode,
                             reduceTransparency |-> reduceTransparency])
    /\ MountLiquidGlass("blur", TRUE)

\* a launch in any mode, on any platform
InitWindow ==
    /\ InitLifecycle
    /\ MountTransparency(EmptyStorage)
    /\ \E transparencyMode \in TransparencyModes, hudPlatform \in BOOLEAN :
          MountLiquidGlass(transparencyMode, hudPlatform)

\* the user sends a message to a thread
SendMessage(threadId, text, images, skipPromptExpansion, steerEnabled) ==
    LET c == sendMessageToThread(Client, threadId, text, images,
                                 skipPromptExpansion, steerEnabled)
    IN  /\ inputs < MaxInputs
        /\ c.issued = "turn" => rpc[threadId] = NoRpc
        /\ Commit(c)
        /\ rpc' = IF c.issued = "turn"
                  THEN [rpc EXCEPT ![threadId] = SentRpc("turn", c.delivery)]
                  ELSE rpc
        /\ inputs' = inputs + 1
        /\ UNCHANGED hookVars
        /\ lastOp' = Op("sendMessageToThread", threadId, Null)
        /\ race' = IF c.issued = "turn" /\ AtRest(threadId)
                   THEN RaceSent(threadId) ELSE RaceOff
        /\ staleInterrupt' =
              Staleness(threadId, IF c.issued = "turn" THEN "send" ELSE "other")
        /\ UNCHANGED <<events, running, nextTurn>>

\* the user sends from the composer, to the thread that is open if any
SendUserMessage(activeThreadId, text, images, steerEnabled) ==
    LET c == sendUserMessage(Client, activeThreadId, text, images, steerEnabled)
    IN  /\ inputs < MaxInputs
        /\ c.issued = "turn" => rpc[activeThreadId] = NoRpc
        /\ Commit(c)
        /\ rpc' = IF c.issued = "turn"
                  THEN [rpc EXCEPT ![activeThreadId] = SentRpc("turn", c.delivery)]
                  ELSE rpc
        /\ inputs' = inputs + 1
        /\ UNCHANGED hookVars
        /\ lastOp' = Op("sendUserMessage", activeThreadId, Null)
        /\ race' = IF c.issued = "turn" /\ AtRest(activeThreadId)
                   THEN RaceSent(activeThreadId) ELSE RaceOff
        /\ staleInterrupt' =
              Staleness(activeThreadId,
                        IF c.issued = "turn" THEN "send" ELSE "other")
        /\ UNCHANGED <<events, running, nextTurn>>

\* the start-turn RPC settles and sendMessageToThread resumes
StartTurnSettled(threadId) ==
    LET response == rpc[threadId]
    IN  /\ response.kind = "turn"
        /\ response.phase = "settled"
        /\ Commit(startTurnSettled(Client, threadId, response))
        /\ rpc' = [rpc EXCEPT ![threadId] = NoRpc]
        /\ UNCHANGED hookVars
        /\ lastOp' = Op("startTurnSettled", threadId, response.turnId)
        /\ race' = IF race.live /\ race.threadId = threadId
                      /\ response.outcome = "ok"
                   THEN [race EXCEPT !.settled = TRUE] ELSE RaceOff
        /\ staleInterrupt' = Staleness(threadId, "other")
        /\ UNCHANGED <<events, running, nextTurn, inputs>>

\* the user presses stop
InterruptTurn(activeThreadId) ==
    /\ inputs < MaxInputs
    /\ Commit(interruptTurn(Client, activeThreadId))
    /\ inputs' = inputs + 1
    /\ UNCHANGED hookVars
    /\ lastOp' = Op("interruptTurn", activeThreadId, Null)
    /\ race' = IF race.live /\ race.threadId = activeThreadId
                  /\ race.interrupt = "none"
               THEN RaceInterrupted ELSE RaceOff
    /\ staleInterrupt' =
          Staleness(activeThreadId,
                    IF activeThreadId # Null
                       /\ state.activeTurnIdByThread[activeThreadId] = Null
                    THEN "queue" ELSE "other")
    /\ UNCHANGED <<rpc, events, running, nextTurn>>

\* an interrupt RPC settles: the agent resolves it or the call is rejected
InterruptSettled(call, rejected) ==
    /\ call \in interruptsInFlight
    /\ rejected => inputs < MaxInputs
    /\ Commit(interruptTurnSettled(Client, call, rejected))
    /\ inputs' = IF rejected THEN inputs + 1 ELSE inputs
    /\ UNCHANGED hookVars
    /\ lastOp' = Op(IF rejected THEN "interruptRejected" ELSE "interruptResolved",
                    interruptCalls[call].threadId, interruptCalls[call].turnId)
    /\ staleInterrupt' = Staleness(interruptCalls[call].threadId, "other")
    /\ UNCHANGED <<rpc, events, running, nextTurn, race>>

\* the user starts a review on the active thread
StartReview(threadId, text) ==
    LET c == startReview(Client, threadId, text)
    IN  /\ inputs < MaxInputs
        /\ c.issued = "review" => rpc[threadId] = NoRpc
        /\ Commit(c)
        /\ rpc' = IF c.issued = "review"
                  THEN [rpc EXCEPT ![threadId] = SentRpc("review", c.delivery)]
                  ELSE rpc
        /\ inputs' = inputs + 1
        /\ UNCHANGED hookVars
        /\ lastOp' = Op("startReview", threadId, Null)
        /\ race' = RaceOff
        /\ staleInterrupt' = Staleness(threadId, "other")
        /\ UNCHANGED <<events, running, nextTurn>>

\* the review-start RPC settles and startReview resumes
StartReviewSettled(threadId) ==
    LET response == rpc[threadId]
    IN  /\ response.kind = "review"
        /\ response.phase = "settled"
        /\ Commit(startReviewSettled(Client, threadId, response))
        /\ rpc' = [rpc EXCEPT ![threadId] = NoRpc]
        /\ UNCHANGED hookVars
        /\ lastOp' = Op("startReviewSettled", threadId, Null)
        /\ race' = RaceOff
        /\ staleInterrupt' = Staleness(threadId, "other")
        /\ UNCHANGED <<events, running, nextTurn, inputs>>

\* the event feed hands the oldest event of a thread to its handler
DeliverEvent(threadId) ==
    /\ events[threadId] # <<>>
    /\ LET event == Head(events[threadId])
       IN  /\ Commit(handleEvent(Client, threadId, event))
           /\ UNCHANGED hookVars
           /\ lastOp' = Op(IF event.type = "turn-error" /\ event.willRetry
                           THEN "turn-error-retry" ELSE event.type,
                           threadId, event.turnId)
           /\ race' = IF race.live /\ race.threadId = threadId
                         /\ event.type = "turn-started"
                         /\ event.turnId = race.turnId
                      THEN [race EXCEPT !.started = TRUE] ELSE RaceOff
    /\ staleInterrupt' = Staleness(threadId, "other")
    /\ events' = [events EXCEPT ![threadId] = Tail(@)]
    /\ UNCHANGED <<rpc, running, nextTurn, inputs>>

\* the feed delivers a token usage update of the agent for a thread
ThreadTokenUsageUpdated(threadId, tokenUsage) ==
    /\ Commit(onThreadTokenUsageUpdated(Client, threadId, tokenUsage))
    /\ UNCHANGED hookVars
    /\ lastOp' = Op("thread-token-usage-updated", threadId, Null)
    /\ staleInterrupt' = Staleness(threadId, "other")
    /\ UNCHANGED <<rpc, events, running, nextTurn, inputs, race>>

\* ------------------------------------------------------------ remote agent
\* The agent answers a start-turn or review-start RPC.  When it accepts, it
\* assigns the turn id and announces the turn on the event feed.  It runs one
\* turn per thread at a time.
AgentAnswers(threadId, outcome) ==
    LET request == rpc[threadId]
        turnId == TurnNames[nextTurn]
    IN  /\ request.phase = "sent"
        /\ outcome \in (IF request.kind = "turn" THEN StartOutcomes ELSE ReviewOutcomes)
        /\ UNCHANGED hookVars
        /\ lastOp' = AgentOp(threadId)
        /\ dispatched' = <<>>
        /\ UNCHANGED <<state, pendingInterruptsRef, interruptCalls,
                       interruptsInFlight>>
        /\ staleInterrupt' =
              IF staleInterrupt[threadId] = "sent"
              THEN [staleInterrupt EXCEPT ![threadId] =
                      IF outcome = "ok" THEN turnId ELSE "no"]
              ELSE staleInterrupt
        /\ IF outcome = "ok"
           THEN /\ ~\E turn \in running : turn[2] = threadId
                /\ rpc' = [rpc EXCEPT ![threadId] =
                             SettledRpc(request, outcome, turnId)]
                /\ events' = [events EXCEPT ![threadId] =
                     Append(@, Event("turn-started", turnId, "", FALSE))]
                /\ running' = running \cup {<<turnId, threadId>>}
                /\ nextTurn' = nextTurn + 1
                /\ race' = IF race.live /\ race.threadId = threadId
                           THEN [race EXCEPT !.turnId = turnId] ELSE race
                /\ UNCHANGED inputs
           ELSE /\ inputs < MaxInputs
                /\ inputs' = inputs + 1
                /\ rpc' = [rpc EXCEPT ![threadId] =
                             SettledRpc(request, outcome, EmptyId)]
                /\ race' = IF race.threadId = threadId THEN RaceOff ELSE race
                /\ UNCHANGED <<events, running, nextTurn>>

\* a running turn ends: turn-completed, or a turn-error that is not retried
AgentEndsTurn(turnId, threadId, failed, message) ==
    /\ <<turnId, threadId>> \in running
    /\ failed => inputs < MaxInputs
    /\ ~failed => message = ""
    /\ inputs' = IF failed THEN inputs + 1 ELSE inputs
    /\ UNCHANGED hookVars
    /\ lastOp' = AgentOp(threadId)
    /\ dispatched' = <<>>
    /\ running' = running \ {<<turnId, threadId>>}
    /\ events' = [events EXCEPT ![threadId] =
         Append(@, IF failed THEN Event("turn-error", turnId, message, FALSE)
                   ELSE Event("turn-completed", turnId, "", FALSE))]
    /\ UNCHANGED <<state, pendingInterruptsRef, interruptCalls,
                   interruptsInFlight, rpc, nextTurn, race, staleInterrupt>>

\* a running turn hits a transient error that the agent will retry
AgentRetries(turnId, threadId, message) ==
    /\ <<turnId, threadId>> \in running
    /\ inputs < MaxInputs
    /\ inputs' = inputs + 1
    /\ UNCHANGED hookVars
    /\ lastOp' = AgentOp(threadId)
    /\ dispatched' = <<>>
    /\ events' = [events EXCEPT ![threadId] =
         Append(@, Event("turn-error", turnId, message, TRUE))]
    /\ UNCHANGED <<state, pendingInterruptsRef, interruptCalls,
                   interruptsInFlight, rpc, running,
                   nextTurn, race, staleInterrupt>>

\* the variables of the turn lifecycle
turnVars == <<state, pendingInterruptsRef, interruptCalls, interruptsInFlight,
              rpc, events, running, nextTurn, dispatched, race, staleInterrupt>>

\* the application renders useModels with another workspace or preference
ModelsRendered(workspaceId, isConnected, preferredModelId, preferredEffort) ==
    LET h == [useModels EXCEPT !.workspaceId = workspaceId,
                               !.isConnected = isConnected,
                               !.preferredModelId = preferredModelId,
                               !.preferredEffort = preferredEffort]
    IN  /\ inputs < MaxInputs
        /\ h # useModels
        /\ useModels' = settleEffects(useModels, h)
        /\ inputs' = inputs + 1
        /\ lastOp' = ModelsOp("render")
        /\ UNCHANGED <<turnVars, useTransparencyPreference, localStorage,
                   useLiquidGlassEffect>>

\* the user picks a model of the list (setSelectedModelId)
SelectModel(modelId) ==
    /\ inputs < MaxInputs
    /\ \E i \in 1..Len(useModels.models) : useModels.models[i].id = modelId
    /\ useModels' =
          settleEffects(useModels, [useModels EXCEPT !.selectedModelId = modelId])
    /\ inputs' = inputs + 1
    /\ lastOp' = ModelsOp("setSelectedModelId")
    /\ UNCHANGED <<turnVars, useTransparencyPreference, localStorage,
                   useLiquidGlassEffect>>

\* the user picks one of the reasoning options (setSelectedEffort)
SelectEffort(effort) ==
    /\ inputs < MaxInputs
    /\ effort \in reasoningOptions(useModels)
    /\ useModels' =
          settleEffects(useModels, [useModels EXCEPT !.selectedEffort = effort])
    /\ inputs' = inputs + 1
    /\ lastOp' = ModelsOp("setSelectedEffort")
    /\ UNCHANGED <<turnVars, useTransparencyPreference, localStorage,
                   useLiquidGlassEffect>>

\* the application calls the refreshModels the hook returns
RefreshModels ==
    /\ inputs < MaxInputs
    /\ useModels' = refreshModels(useModels)
    /\ inputs' = inputs + 1
    /\ lastOp' = ModelsOp("refreshModels")
    /\ UNCHANGED <<turnVars, useTransparencyPreference, localStorage,
                   useLiquidGlassEffect>>

\* a getModelList request settles and refreshModels resumes
GetModelListSettled(call, response) ==
    /\ call \in 1..Len(useModels.requests)
    /\ useModels' =
          settleEffects(useModels,
                        refreshModelsSettled(useModels, call, response))
    /\ lastOp' = ModelsOp(IF response.threw THEN "getModelList rejected"
                          ELSE "getModelList resolved")
    /\ UNCHANGED <<turnVars, inputs, useTransparencyPreference, localStorage,
                   useLiquidGlassEffect>>

\* the user chooses a transparency mode
SetTransparencyMode(next) ==
    LET h == setTransparencyMode(useTransparencyPreference, next)
    IN  /\ inputs < MaxInputs
        /\ useTransparencyPreference' =
              transparencyEffects(useTransparencyPreference, h)
        /\ localStorage' = storeMode(useTransparencyPreference, h, localStorage)
        /\ inputs' = inputs + 1
        /\ lastOp' = TransparencyOp("setTransparencyMode")
        /\ UNCHANGED <<turnVars, useModels, useLiquidGlassEffect>>

\* an isGlassSupported() call settles and checkSupport resumes
GlassCheckSettled(check, outcome) ==
    LET h == checkSupportSettled(useTransparencyPreference, check, outcome)
    IN  /\ check \in 1..Len(useTransparencyPreference.checks)
        /\ useTransparencyPreference' =
              transparencyEffects(useTransparencyPreference, h)
        /\ localStorage' = storeMode(useTransparencyPreference, h, localStorage)
        /\ lastOp' =
              TransparencyOp(
                  IF useTransparencyPreference.checks[check].cancelled
                  THEN "checkSupport cancelled"
                  ELSE IF outcome = "rejected" THEN "checkSupport rejected"
                  ELSE "checkSupport resolved")
        /\ UNCHANGED <<turnVars, inputs, useModels, useLiquidGlassEffect>>

\* the hook is rendered with another transparencyMode
TransparencyModeChanged(next) ==
    /\ inputs < MaxInputs
    /\ next # useLiquidGlassEffect.transparencyMode
    /\ useLiquidGlassEffect' = applyEffect(useLiquidGlassEffect, next)
    /\ inputs' = inputs + 1
    /\ lastOp' = TransparencyOp("transparencyMode")
    /\ UNCHANGED <<turnVars, useModels, useTransparencyPreference,
                   localStorage>>

\* an await of an apply() run settles
ApplyResumed(run, outcome) ==
    /\ run \in 1..Len(useLiquidGlassEffect.runs)
    /\ useLiquidGlassEffect.runs[run].at # "isGlassSupported" =>
          outcome = "true"
    /\ useLiquidGlassEffect' = applyResumed(useLiquidGlassEffect, run, outcome)
    /\ lastOp' = TransparencyOp("apply")
    /\ UNCHANGED <<turnVars, inputs, useModels, useTransparencyPreference,
                   localStorage>>

\* ------------------------------------------------------------ specification
Next ==
    \/ \E text \in Texts, images \in {0, 1}, skip \in BOOLEAN, steer \in BOOLEAN :
          SendMessage(ActiveThreadId, text, images, skip, steer)
    \/ \E t \in {ActiveThreadId, Null}, text \in Texts, steer \in BOOLEAN :
          SendUserMessage(t, text, 0, steer)
    \/ StartTurnSettled(ActiveThreadId)
    \/ \E t \in {ActiveThreadId, Null} : InterruptTurn(t)
    \/ \E text \in {"  ", " hello "} : StartReview(ActiveThreadId, text)
    \/ StartReviewSettled(ActiveThreadId)
    \/ DeliverEvent(ActiveThreadId)
    \/ \E outcome \in StartOutcomes : AgentAnswers(ActiveThreadId, outcome)
    \/ \E turnId \in TurnIds, failed \in BOOLEAN, message \in {"", ErrorText} :
          AgentEndsTurn(turnId, ActiveThreadId, failed, message)
    \/ \E turnId \in TurnIds : AgentRetries(turnId, ActiveThreadId, ErrorText)

Spec == Init /\ [][Next]_vars

\* The same program with the settlement of the interrupt RPCs observed.  No
\* handler reads whether an interrupt RPC has settled, so Spec leaves these
\* steps out.
NextInterrupts ==
    \/ Next
    \/ \E call \in 1..MaxInputs, rejected \in BOOLEAN :
          InterruptSettled(call, rejected)

SpecInterrupts == Init /\ [][NextInterrupts]_vars

\* Turns of several threads side by side: the user sends to any thread and
\* stops whichever thread is open, the agent accepts and completes turns.
NextThreads ==
    \/ \E t \in Threads : SendMessage(t, " hello ", 0, TRUE, FALSE)
    \/ \E t \in Threads : StartTurnSettled(t)
    \/ \E t \in Threads : InterruptTurn(t)
    \/ \E t \in Threads : DeliverEvent(t)
    \/ \E t \in Threads : AgentAnswers(t, "ok")
    \/ \E t \in Threads, turnId \in TurnIds : AgentEndsTurn(turnId, t, FALSE, "")

SpecThreads == Init /\ [][NextThreads]_vars

\* A turn of the open thread while the agent reports the token usage of the
\* threads.
NextUsage ==
    \/ \E t \in Threads, tokenUsage \in TokenUsagePayloads :
          ThreadTokenUsageUpdated(t, tokenUsage)
    \/ SendMessage(ActiveThreadId, " hello ", 0, TRUE, FALSE)
    \/ StartTurnSettled(ActiveThreadId)
    \/ DeliverEvent(ActiveThreadId)
    \/ AgentAnswers(ActiveThreadId, "ok")
    \/ \E turnId \in TurnIds : AgentEndsTurn(turnId, ActiveThreadId, FALSE, "")

SpecUsage == Init /\ [][NextUsage]_vars

\* The model list of the open workspace: the application renders the hook,
\* the user picks models and efforts, the server answers model/list.
NextModels ==
    \/ \E workspaceId \in WorkspaceIds \cup {Null}, isConnected \in BOOLEAN,
          preferredModelId \in {Null, "b"}, preferredEffort \in {Null, "high"} :
          ModelsRendered(workspaceId, isConnected, preferredModelId,
                         preferredEffort)
    \/ \E modelId \in {"a", "b", "c"} : SelectModel(modelId)
    \/ \E effort \in {"low", "high"} : SelectEffort(effort)
    \/ RefreshModels
    \/ \E call \in 1..MaxInputs, response \in ModelListOutcomes :
          GetModelListSettled(call, response)

SpecModels == Init /\ [][NextModels]_vars

\* The transparency preference: the user chooses modes while the support
\* checks settle.
NextTransparency ==
    \/ \E next \in TransparencyModes : SetTransparencyMode(next)
    \/ \E check \in 1..(MaxInputs + 1), outcome \in GlassCheckOutcomes :
          GlassCheckSettled(check, outcome)

SpecTransparency == InitStored /\ [][NextTransparency]_vars

\* The window effects: the mode changes while the apply() runs go on.
NextWindow ==
    \/ \E next \in TransparencyModes : TransparencyModeChanged(next)
    \/ \E run \in 1..(MaxInputs + 1), outcome \in GlassCheckOutcomes :
          ApplyResumed(run, outcome)

SpecWindow == InitWindow /\ [][NextWindow]_vars

\* ------------------------------------------------------------- properties
isProcessing(threadId) == state.threadStatusById[threadId].isProcessing
isReviewing(threadId) == state.threadStatusById[threadId].isReviewing
activeTurnId(threadId) == state.activeTurnIdByThread[threadId]

\* interrupt RPCs issued since the observed send
RaceCalls == SubSeq(interruptCalls, race.callsBefore + 1, Len(interruptCalls))
InterruptCall(threadId, turnId) ==
    [workspaceId |-> WorkspaceId, threadId |-> threadId, turnId |-> turnId]

\* turn ids the agent has assigned so far
AssignedTurnIds == {TurnNames[i] : i \in 1..(nextTurn - 1)}

\* C1: when interruptTurn is invoked before the start RPC of a send settles,
\* the thread is never shown processing and never holds the turn's id as
\* active afterwards, and once the RPC has settled with T and turn-started(T)
\* has been delivered the active turn id is null.
C1_InterruptBeforeStartEndsIdle ==
    (race.live /\ race.interrupt = "first") =>
        /\ ~isProcessing(race.threadId)
        /\ race.turnId # Null => activeTurnId(race.threadId) # race.turnId
        /\ (race.settled /\ race.started) => activeTurnId(race.threadId) = Null

\* C2: in the same scenario, once the RPC has settled with T and
\* turn-started(T) has been delivered, exactly one interrupt RPC has been
\* issued for the thread, and it carries T.
C2_ExactlyOneInterruptCarryingT ==
    (race.live /\ race.interrupt = "first" /\ race.settled /\ race.started) =>
        RaceCalls = <<InterruptCall(race.threadId, race.turnId)>>

\* C3: interruptTurn invoked while the store holds no active turn id records
\* the thread in the pending-interrupt set and sends no interrupt RPC at that
\* moment; every interrupt RPC carries a turn id assigned by the agent.
C3_NoInterruptWithoutTurnId ==
    [][/\ \A t \in Threads :
            (lastOp'.op = "interruptTurn" /\ lastOp'.threadId = t
             /\ activeTurnId(t) = Null)
            => (t \in pendingInterruptsRef' /\ interruptCalls' = interruptCalls)
       /\ \A i \in 1..Len(interruptCalls') :
            interruptCalls'[i].turnId \in TurnIds]_vars

\* C4: wherever interruptTurn falls relative to the settlement of the start
\* RPC and the delivery of turn-started, the thread is not processing
\* afterwards and the interrupted turn's id is not recorded as active.
C4_NoGhostTurnAfterInterrupt ==
    (race.live /\ race.interrupt # "none") =>
        /\ ~isProcessing(race.threadId)
        /\ race.turnId # Null => activeTurnId(race.threadId) # race.turnId

\* C5: interruptTurn invoked after the start RPC settled with a turn id and
\* before turn-started was delivered records the thread in the
\* pending-interrupt set.
C5_InterruptAfterSettleIsQueued ==
    (race.live /\ race.interrupt = "afterSettled" /\ lastOp.op = "interruptTurn") =>
        race.threadId \in pendingInterruptsRef

\* C6: every thread is idle, starting or active; none holds an active turn id
\* while it is not processing.
C6_ThreadIsIdleStartingOrActive ==
    \A t \in Threads : activeTurnId(t) # Null => isProcessing(t)

\* C7: a thread that is reviewing is processing.
C7_ReviewingImpliesProcessing ==
    \A t \in Threads : isReviewing(t) => isProcessing(t)

\* C8: the active turn id stored for a thread is null or one turn id, a turn
\* id the agent has assigned.
C8_AtMostOneActiveTurn ==
    \A t \in Threads : activeTurnId(t) \in AssignedTurnIds \cup {Null}
\* a second turn's id has replaced the first as the active one
C8_Witness ==
    /\ activeTurnId(ActiveThreadId) = TurnNames[2]
    /\ lastOp.op \in {"turn-started", "startTurnSettled"}

\* the feed delivers the event at the head of a thread's queue
Delivered(threadId, type, willRetry) ==
    /\ events[threadId] # <<>>
    /\ Head(events[threadId]).type = type
    /\ Head(events[threadId]).willRetry = willRetry
    /\ events'[threadId] = Tail(events[threadId])

\* C9: delivering turn-error with willRetry=true changes neither the store
\* (processing, reviewing, active turn id, items) nor the pending-interrupt
\* set, issues no interrupt RPC and dispatches no store mutation.
C9_RetrySuppression ==
    [][\A t \in Threads :
        Delivered(t, "turn-error", TRUE) =>
            /\ state' = state
            /\ pendingInterruptsRef' = pendingInterruptsRef
            /\ interruptCalls' = interruptCalls
            /\ dispatched' = <<>>]_vars
\* a retry notice has been delivered to a thread with an active turn
C9_Witness ==
    /\ lastOp.op = "turn-error-retry"
    /\ lastOp.pre.isProcessing
    /\ lastOp.pre.activeTurnId # Null

Idle(threadId) == ~isProcessing(threadId) /\ activeTurnId(threadId) = Null

SameClient(c1, c2) ==
    /\ c1.state = c2.state
    /\ c1.pendingInterruptsRef = c2.pendingInterruptsRef
    /\ c1.interruptCalls = c2.interruptCalls

\* C10 as claimed: delivering turn-completed for an idle thread changes no
\* state.
C10_CompletedOnIdleChangesNothing ==
    [][\A t \in Threads :
        (Delivered(t, "turn-completed", FALSE) /\ Idle(t)) =>
            UNCHANGED <<state, pendingInterruptsRef, interruptCalls>>]_vars

\* C10: delivering turn-completed for an idle thread leaves the store
\* unchanged and issues no interrupt RPC; its only effect is to remove the
\* thread from the pending-interrupt set.  Handling turn-completed a second
\* time changes nothing more.
C10_CompletedOnIdleOnlyClearsPending ==
    [][\A t \in Threads :
        (Delivered(t, "turn-completed", FALSE) /\ Idle(t)) =>
            /\ state' = state
            /\ interruptCalls' = interruptCalls
            /\ pendingInterruptsRef' = pendingInterruptsRef \ {t}
            /\ SameClient(onTurnCompleted(Client', t, Head(events[t]).turnId),
                          Client')]_vars
\* turn-completed has been delivered to an idle thread with a pending interrupt
C10_Witness ==
    /\ lastOp.op = "turn-completed"
    /\ ~lastOp.pre.isProcessing
    /\ lastOp.pre.activeTurnId = Null
    /\ lastOp.pre.pending

\* items shown for a thread, and an assistant message among them
items(threadId) == state.itemsByThread[threadId]
AssistantMessage(text) == [role |-> "assistant", text |-> text]

\* the handler that awaited the start/review RPC of a thread resumes
Resumed(threadId, kind) ==
    /\ rpc[threadId].kind = kind
    /\ rpc[threadId].phase = "settled"
    /\ rpc'[threadId] = NoRpc

\* error messages sendMessageToThread shows for a start RPC that failed
StartFailureTexts ==
    {ErrorText, TurnFailedToStartWith(ErrorText), TurnFailedToStart}

\* C11: when the start RPC rejects, resolves with an error (top level or
\* nested under result) or resolves without a turn id, then once
\* sendMessageToThread has handled the resolution the thread is not
\* processing, its active turn id is null, and exactly one error message has
\* been appended to the thread.
C11_StartFailureRevertsToIdle ==
    [][\A t \in Threads :
        (Resumed(t, "turn") /\ rpc[t].outcome # "ok") =>
            /\ ~isProcessing(t)'
            /\ activeTurnId(t)' = Null
            /\ \E text \in StartFailureTexts :
                  items(t)' = Append(items(t), AssistantMessage(text))]_vars
\* a failed start RPC has been handled on a thread that held an active turn
C11_Witness ==
    /\ lastOp.op = "startTurnSettled"
    /\ lastOp.turnId = EmptyId
    /\ lastOp.pre.isProcessing
    /\ lastOp.pre.activeTurnId # Null
    /\ Idle(lastOp.threadId)

\* C12: when the start RPC resolves without error and carries turn id X,
\* sendMessageToThread records X as the active turn id of the thread and
\* leaves the processing flag as it found it: its only store mutation is
\* setActiveTurnId(thread, X).
C12_StartSuccessRecordsTurnId ==
    [][\A t \in Threads :
        (Resumed(t, "turn") /\ rpc[t].outcome = "ok") =>
            /\ activeTurnId(t)' = rpc[t].turnId
            /\ rpc[t].turnId \in TurnIds
            /\ isProcessing(t)' = isProcessing(t)
            /\ dispatched' = <<setActiveTurnId(t, rpc[t].turnId)>>]_vars
\* the start RPC of a send resolved with turn-1 while the thread was starting
C12_Witness ==
    /\ lastOp.op = "startTurnSettled"
    /\ lastOp.turnId = TurnNames[1]
    /\ lastOp.pre.isProcessing
    /\ lastOp.pre.activeTurnId = Null
    /\ isProcessing(lastOp.threadId)
    /\ activeTurnId(lastOp.threadId) = TurnNames[1]

\* C13: every sendMessageToThread that passes validation dispatches the
\* last-activity timestamp and processing=true before it issues the start
\* RPC: in the state where the RPC has just been put in flight the thread is
\* processing, and the send has recorded no turn id (the active turn id is
\* the one it found).
C13_ProcessingBeforeStartRpc ==
    [][\A t \in Threads :
        (rpc[t] = NoRpc /\ rpc'[t] = SentRpc("turn", "none")) =>
            /\ lastOp'.op \in {"sendMessageToThread", "sendUserMessage"}
            /\ Len(dispatched') >= 2
            /\ SubSeq(dispatched', Len(dispatched') - 1, Len(dispatched')) =
                   <<setThreadTimestamp(t), markProcessing(t, TRUE)>>
            /\ isProcessing(t)'
            /\ activeTurnId(t)' = activeTurnId(t)]_vars
\* a send on an idle thread has put its start RPC in flight
C13_Witness ==
    /\ lastOp.op = "sendMessageToThread"
    /\ ~lastOp.pre.isProcessing
    /\ rpc[lastOp.threadId] = SentRpc("turn", "none")
    /\ dispatched = <<setThreadTimestamp(lastOp.threadId),
                      markProcessing(lastOp.threadId, TRUE)>>
    /\ isProcessing(lastOp.threadId)
    /\ activeTurnId(lastOp.threadId) = Null

\* interruptTurn runs for a thread
Interrupted(threadId) ==
    lastOp'.op = "interruptTurn" /\ lastOp'.threadId = threadId

\* C14: when interruptTurn is invoked for the active thread while its active
\* turn id is null, then at the return of its synchronous part the thread is
\* not processing, one "Session stopped." message has been appended to it,
\* and the thread id is in the pending-interrupt set.
C14_InterruptWithoutTurnIdIsQueued ==
    [][\A t \in Threads :
        (Interrupted(t) /\ activeTurnId(t) = Null) =>
            /\ ~isProcessing(t)'
            /\ items(t)' = Append(items(t), AssistantMessage(SessionStopped))
            /\ t \in pendingInterruptsRef']_vars
\* interruptTurn found the thread starting: processing, no turn id, not queued
C14_Witness ==
    /\ lastOp.op = "interruptTurn"
    /\ lastOp.threadId = ActiveThreadId
    /\ lastOp.pre.isProcessing
    /\ lastOp.pre.activeTurnId = Null
    /\ ~lastOp.pre.pending
    /\ ActiveThreadId \in pendingInterruptsRef

\* C15: when turn-started(T) is delivered for a thread that is in the
\* pending-interrupt set, the thread is removed from the set, one interrupt
\* RPC carrying T is issued, and the handler changes neither the processing
\* flag nor the active turn id of the thread.
C15_TurnStartedConsumesPendingInterrupt ==
    [][\A t \in Threads :
        (Delivered(t, "turn-started", FALSE) /\ t \in pendingInterruptsRef) =>
            /\ pendingInterruptsRef' = pendingInterruptsRef \ {t}
            /\ Head(events[t]).turnId \in TurnIds
            /\ interruptCalls' =
                  Append(interruptCalls, InterruptCall(t, Head(events[t]).turnId))
            /\ isProcessing(t)' = isProcessing(t)
            /\ activeTurnId(t)' = activeTurnId(t)]_vars
\* turn-started reached a thread whose interrupt was pending
C15_Witness ==
    /\ lastOp.op = "turn-started"
    /\ lastOp.pre.pending
    /\ ~lastOp.pre.isProcessing
    /\ lastOp.threadId \notin pendingInterruptsRef
    /\ ~isProcessing(lastOp.threadId)
    /\ interruptCalls[Len(interruptCalls)] =
          InterruptCall(lastOp.threadId, lastOp.turnId)

\* C16: when turn-started(T) is delivered for a thread that is not in the
\* pending-interrupt set, the thread ends processing with T as its active
\* turn id, whatever id was recorded before, and no interrupt RPC is issued.
C16_TurnStartedLastWriterWins ==
    [][\A t \in Threads :
        (Delivered(t, "turn-started", FALSE) /\ t \notin pendingInterruptsRef) =>
            /\ isProcessing(t)'
            /\ activeTurnId(t)' = Head(events[t]).turnId
            /\ interruptCalls' = interruptCalls
            /\ pendingInterruptsRef' = pendingInterruptsRef]_vars
\* turn-started overwrote the id of another turn recorded as active
C16_Witness ==
    /\ lastOp.op = "turn-started"
    /\ ~lastOp.pre.pending
    /\ lastOp.pre.activeTurnId \notin {Null, lastOp.turnId}
    /\ isProcessing(lastOp.threadId)
    /\ activeTurnId(lastOp.threadId) = lastOp.turnId

\* what the client holds about a thread is left as it is
ThreadUnchanged(threadId) ==
    /\ state'.threadStatusById[threadId] = state.threadStatusById[threadId]
    /\ activeTurnId(threadId)' = activeTurnId(threadId)
    /\ items(threadId)' = items(threadId)
    /\ (threadId \in pendingInterruptsRef') = (threadId \in pendingInterruptsRef)
    /\ rpc'[threadId] = rpc[threadId]
    /\ events'[threadId] = events[threadId]

\* C17: from any prior state, delivering turn-completed for a thread leaves
\* that thread not processing, with a null active turn id and out of the
\* pending-interrupt set; it issues no interrupt RPC and changes nothing
\* about any other thread.
C17_TurnCompletedClearsOnlyItsThread ==
    [][\A t \in Threads :
        Delivered(t, "turn-completed", FALSE) =>
            /\ ~isProcessing(t)'
            /\ activeTurnId(t)' = Null
            /\ t \notin pendingInterruptsRef'
            /\ interruptCalls' = interruptCalls
            /\ \A u \in Threads \ {t} : ThreadUnchanged(u)]_vars
\* turn-completed ended an active turn while another thread, stopped by the
\* user, had an interrupt pending
C17_Witness ==
    /\ lastOp.op = "turn-completed"
    /\ lastOp.pre.isProcessing
    /\ lastOp.pre.activeTurnId # Null
    /\ Idle(lastOp.threadId)
    /\ \E u \in Threads \ {lastOp.threadId} :
          u \in pendingInterruptsRef /\ items(u) # <<>>

\* C18: delivering turn-error with willRetry=false leaves the thread not
\* processing, not reviewing and with a null active turn id, and appends
\* exactly one error message to it: "Turn failed: <message>" when the payload
\* carries a message, "Turn failed." when it carries none.
C18_TerminalTurnError ==
    [][\A t \in Threads :
        Delivered(t, "turn-error", FALSE) =>
            /\ ~isProcessing(t)'
            /\ ~isReviewing(t)'
            /\ activeTurnId(t)' = Null
            /\ Head(events[t]).message \in {"", "rate limited"}
            /\ items(t)' = Append(items(t), AssistantMessage(
                  IF Head(events[t]).message = "rate limited"
                  THEN "Turn failed: rate limited" ELSE "Turn failed."))]_vars
\* a review turn that was running has failed with a message
C18_Witness ==
    /\ lastOp.op = "turn-error"
    /\ lastOp.pre.isProcessing
    /\ lastOp.pre.isReviewing
    /\ lastOp.pre.activeTurnId # Null
    /\ Idle(lastOp.threadId)
    /\ ~isReviewing(lastOp.threadId)
    /\ Len(items(lastOp.threadId)) = lastOp.pre.items + 1
    /\ items(lastOp.threadId)[Len(items(lastOp.threadId))].text =
          "Turn failed: rate limited"

\* error messages startReview shows for a review-start RPC that failed
ReviewFailureTexts == {ErrorText, ReviewFailedToStartWith(ErrorText)}

\* C19: startReview invoked with non-blank text on an idle thread marks the
\* thread processing and reviewing and puts a review-start RPC with mode
\* "inline" in flight; when that RPC rejects or resolves with an embedded
\* error, startReview leaves the thread not processing and not reviewing and
\* appends exactly one error message to it.
C19_ReviewStartAndFailure ==
    [][\A t \in Threads :
        /\ (lastOp'.op = "startReview" /\ lastOp'.threadId = t /\ Idle(t)
             /\ rpc'[t] # rpc[t]) =>
               /\ dispatched' = <<markProcessing(t, TRUE), markReviewing(t, TRUE)>>
               /\ isProcessing(t)'
               /\ isReviewing(t)'
               /\ rpc'[t] = SentRpc("review", "inline")
        /\ (Resumed(t, "review") /\ rpc[t].outcome # "ok") =>
               /\ rpc[t].delivery = "inline"
               /\ ~isProcessing(t)'
               /\ ~isReviewing(t)'
               /\ \E text \in ReviewFailureTexts :
                     items(t)' = Append(items(t), AssistantMessage(text))]_vars
\* the review-start RPC of a review begun on an idle thread was rejected
C19_Witness ==
    /\ lastOp.op = "startReviewSettled"
    /\ lastOp.pre.isProcessing
    /\ lastOp.pre.isReviewing
    /\ lastOp.pre.activeTurnId = Null
    /\ Idle(lastOp.threadId)
    /\ ~isReviewing(lastOp.threadId)
    /\ Len(items(lastOp.threadId)) = 1
    /\ items(lastOp.threadId)[1] = AssistantMessage(ErrorText)

\* C20: when the store holds active turn id X for the active thread,
\* interruptTurn issues one interrupt RPC carrying X, marks the thread not
\* processing, clears its active turn id, appends "Session stopped." and
\* leaves the pending-interrupt set as it is.
C20_InterruptWithKnownTurnId ==
    [][\A t \in Threads :
        (Interrupted(t) /\ activeTurnId(t) # Null) =>
            /\ activeTurnId(t) \in TurnIds
            /\ interruptCalls' =
                  Append(interruptCalls, InterruptCall(t, activeTurnId(t)))
            /\ ~isProcessing(t)'
            /\ activeTurnId(t)' = Null
            /\ items(t)' = Append(items(t), AssistantMessage(SessionStopped))
            /\ pendingInterruptsRef' = pendingInterruptsRef]_vars
\* interruptTurn stopped a running turn whose id the store held
C20_Witness ==
    /\ lastOp.op = "interruptTurn"
    /\ lastOp.pre.isProcessing
    /\ lastOp.pre.activeTurnId \in TurnIds
    /\ ~lastOp.pre.pending
    /\ Idle(lastOp.threadId)
    /\ lastOp.threadId \notin pendingInterruptsRef
    /\ interruptCalls[Len(interruptCalls)] =
          InterruptCall(lastOp.threadId, lastOp.pre.activeTurnId)

\* the interrupt RPC of a thread is rejected
InterruptRejected(threadId) ==
    lastOp'.op = "interruptRejected" /\ lastOp'.threadId = threadId

\* C21: interruptTurn applies the local stopped state (not processing, null
\* active turn id, "Session stopped." appended) while its interrupt RPC is
\* still in flight, and the rejection of an interrupt RPC changes neither the
\* store (processing flag, active turn id, items) nor the pending-interrupt
\* set.
C21_InterruptIsFireAndForget ==
    [][\A t \in Threads :
        /\ Interrupted(t) =>
              /\ ~isProcessing(t)'
              /\ activeTurnId(t)' = Null
              /\ items(t)' = Append(items(t), AssistantMessage(SessionStopped))
              /\ Len(interruptCalls') = Len(interruptCalls) + 1
              /\ Len(interruptCalls') \in interruptsInFlight'
        /\ InterruptRejected(t) =>
              /\ state' = state
              /\ pendingInterruptsRef' = pendingInterruptsRef
              /\ interruptCalls' = interruptCalls
              /\ dispatched' = <<>>]_vars
\* the interrupt RPC for a running turn was rejected after the thread had
\* been shown stopped
C21_Witness ==
    /\ lastOp.op = "interruptRejected"
    /\ lastOp.turnId \in TurnIds
    /\ <<lastOp.turnId, lastOp.threadId>> \in running
    /\ Idle(lastOp.threadId)
    /\ items(lastOp.threadId) # <<>>
    /\ items(lastOp.threadId)[Len(items(lastOp.threadId))] =
          AssistantMessage(SessionStopped)

\* a start is in flight for a thread: its RPC has been issued and neither a
\* turn-started, a turn-completed nor a start failure has been handled for it
StartInFlight(threadId) ==
    \/ rpc[threadId].phase = "sent"
    \/ rpc[threadId].phase = "settled" /\ rpc[threadId].outcome # "ok"
    \/ \E i \in 1..Len(events[threadId]) :
          events[threadId][i].type = "turn-started"

\* C22: a thread is in the pending-interrupt set only while a start for that
\* thread is in flight; the entry is gone once the start RPC has failed, and
\* interruptTurn on a thread with no start in flight leaves no entry behind.
C22_PendingOnlyWhileStartInFlight ==
    \A t \in Threads : t \in pendingInterruptsRef => StartInFlight(t)

\* the items a handler run has added to a thread
AddedItems(c, threadId) ==
    SubSeq(c.state.itemsByThread[threadId], Len(items(threadId)) + 1,
           Len(c.state.itemsByThread[threadId]))
UserMessage(text) == [role |-> "user", text |-> text]

\* C23: whatever the state and the input, a sendMessageToThread that passes
\* validation adds, before its start RPC resolves, exactly one optimistic
\* user item (the trimmed text, or "[image]" when there is none) if the thread
\* was processing and steer mode is enabled, and no item otherwise; one that
\* fails validation adds no user item.
C23_OptimisticItemRule ==
    \A t \in Threads, text \in Texts, images \in {0, 1},
       skip \in BOOLEAN, steer \in BOOLEAN :
        LET c == sendMessageToThread(Client, t, text, images, skip, steer)
        IN  /\ c.issued = "turn" =>
                  AddedItems(c, t) =
                      IF isProcessing(t) /\ steer
                      THEN <<UserMessage(IF trim(text) # "" THEN trim(text)
                                         ELSE "[image]")>>
                      ELSE <<>>
            /\ c.issued # "turn" =>
                  \A i \in 1..Len(AddedItems(c, t)) :
                      AddedItems(c, t)[i].role # "user"
\* a send on a processing thread has added its optimistic item, the start RPC
\* still in flight
C23_Witness ==
    /\ lastOp.op = "sendMessageToThread"
    /\ lastOp.pre.isProcessing
    /\ rpc[lastOp.threadId].phase = "sent"
    /\ Len(items(lastOp.threadId)) = lastOp.pre.items + 1
    /\ items(lastOp.threadId)[Len(items(lastOp.threadId))] = UserMessage("hello")
    /\ Head(dispatched).type = "upsertItem"

\* the thread-scoped state a validation failure must leave alone
SameThreadStatus(c, threadId) ==
    /\ c.state.threadStatusById[threadId] = state.threadStatusById[threadId]
    /\ c.state.activeTurnIdByThread[threadId] = activeTurnId(threadId)
    /\ c.pendingInterruptsRef = pendingInterruptsRef
    /\ c.interruptCalls = interruptCalls
    /\ c.issued = "none"

tokenUsage(threadId) == state.tokenUsageByThread[threadId]

\* C25: in every state, after two consecutive thread-token-usage-updated
\* events for a thread with different payloads the stored token usage of
\* the thread is the normalization of the second payload, the same as if
\* the first had never arrived, and the token usage of every other thread
\* is what it was.
C25_TokenUsageReplacedWholesale ==
    \A t \in Threads, first \in TokenUsagePayloads, second \in TokenUsagePayloads :
        first # second =>
            LET c == onThreadTokenUsageUpdated(
                         onThreadTokenUsageUpdated(Client, t, first), t, second)
            IN  /\ c.state.tokenUsageByThread[t] = normalizeTokenUsage(second)
                /\ c.state.tokenUsageByThread[t] =
                      onThreadTokenUsageUpdated(Client, t, second)
                          .state.tokenUsageByThread[t]
                /\ \A u \in Threads \ {t} :
                      c.state.tokenUsageByThread[u] = tokenUsage(u)
\* a second update replaced the usage of a thread, leaving counters of the
\* first at zero, while another thread held a usage of its own
C25_Witness ==
    /\ lastOp.op = "thread-token-usage-updated"
    /\ lastOp.pre.tokenUsage.known
    /\ lastOp.pre.tokenUsage.total > 0
    /\ tokenUsage(lastOp.threadId).total = 0
    /\ tokenUsage(lastOp.threadId).last > 0
    /\ \E u \in Threads \ {lastOp.threadId} :
          tokenUsage(u).known /\ tokenUsage(u) # tokenUsage(lastOp.threadId)

\* C26: an interrupt never cancels a later turn: when onTurnStarted issues the
\* interrupt RPC for turn T out of the pending-interrupt set, the
\* interruptTurn that queued the thread was invoked after the sendMessage
\* that started T.  An entry left by interruptTurn on an idle thread, or by an
\* interrupt whose start RPC then failed, does not get the turn of a later
\* sendMessage interrupted.
C26_InterruptNeverCancelsLaterTurn ==
    [][\A t \in Threads :
        (Delivered(t, "turn-started", FALSE) /\ t \in pendingInterruptsRef) =>
            staleInterrupt[t] # Head(events[t]).turnId]_vars

\* nothing is outstanding for a thread: no start or review RPC to resolve or
\* to resume from, no event to deliver, no turn running at the agent
Quiescent(threadId) ==
    /\ rpc[threadId] = NoRpc
    /\ events[threadId] = <<>>
    /\ ~\E turn \in running : turn[2] = threadId

\* C27: when every start RPC has resolved, every turn the agent started
\* has had its turn-started and its terminal event delivered, and no further
\* command is issued, each thread is and stays not processing, with a null
\* active turn id and out of the pending-interrupt set.  Nothing but a
\* command changes a thread for which nothing is outstanding, so the claim
\* requires such a thread to be in that state already.
C27_EventualReturnToIdle ==
    \A t \in Threads :
        Quiescent(t) => (Idle(t) /\ t \notin pendingInterruptsRef)

\* ---------------------------------------------------------------- useModels
\* C28: at most one getModelList request is in flight at any time: a
\* refreshModels invoked while one is in flight issues none, the in-flight
\* guard is set exactly while a request is outstanding (it is released when
\* the request settles, resolved or rejected), and a refreshModels invoked
\* for a connected workspace with no request outstanding issues one.
C28_SingleModelListRequest ==
    [][/\ Len(useModels'.requests) <= 1
       /\ useModels'.inFlight <=> (useModels'.requests # <<>>)
       /\ (lastOp'.op = "refreshModels" /\ useModels.inFlight) =>
              useModels'.requests = useModels.requests
       /\ (/\ lastOp'.op = "refreshModels"
           /\ useModels.requests = <<>>
           /\ ~Falsy(useModels.workspaceId)
           /\ useModels.isConnected) =>
              useModels'.requests = <<Closure(useModels)>>]_vars
\* refreshModels was invoked while a request was in flight, and that request
\* is still the only one
C28_Witness ==
    /\ lastOp.op = "refreshModels"
    /\ lastOp.pre.inFlight
    /\ useModels.inFlight
    /\ Len(useModels.requests) = 1

\* a getModelList request resolves with a non-empty list and the effects of
\* the renders that follow have run
ModelListReturned ==
    lastOp'.op = "getModelList resolved" /\ useModels'.models # <<>>

\* the model refreshModels falls back to
defaultModel(data) ==
    Coalesce(find(data, WithModel(data, PreferredDefaultModel)),
        Coalesce(find(data, IsDefault(data)), data[1]))

\* the selection a returned list leaves is a model of the list, with an effort
\* the model supports or its default effort
SelectionInList ==
    [][ModelListReturned =>
        LET selected == selectedModel(useModels')
        IN  /\ selected # NoModel
            /\ \/ useModels'.selectedEffort
                      \in selected.supportedReasoningEfforts
               \/ useModels'.selectedEffort = selected.defaultReasoningEffort
       ]_vars

\* C29: after a refresh has returned a non-empty list and the effects have
\* settled, selectedModelId is the id of a model of the list: the selection
\* held before the list arrived if the list has it, else the preferred model
\* if the list has it, else the default; and selectedEffort is one of that
\* model's supported efforts or its default effort.
C29_SelectionConsistent ==
    [][ModelListReturned =>
        LET data == useModels'.models
            previous ==
                find(data, WithId(data, useModels.selectedModelId))
            preferred ==
                find(data, WithId(data, useModels.preferredModelId))
            expected ==
                Coalesce(previous, Coalesce(preferred, defaultModel(data)))
            selected == selectedModel(useModels')
        IN  /\ selected # NoModel
            /\ useModels'.selectedModelId = expected.id
            /\ \/ useModels'.selectedEffort
                      \in selected.supportedReasoningEfforts
               \/ useModels'.selectedEffort = selected.defaultReasoningEffort
       ]_vars

\* ------------------------------------------------ useTransparencyPreference
transparencyMode == useTransparencyPreference.mode

InSeq(value, seq) == \E i \in 1..Len(seq) : seq[i] = value

\* a support check that was not cancelled settles
SupportCheckSettled ==
    lastOp'.op \in {"checkSupport resolved", "checkSupport rejected"}

\* C30: once a support check has settled (resolved true, resolved false or
\* rejected) and its state updates are applied, transparencyMode is a member
\* of availableModes: the mode is not "glass" when glass was reported
\* unsupported or the check failed.
C30_ModeIsAvailable ==
    [][SupportCheckSettled =>
          InSeq(transparencyMode', availableModes(useTransparencyPreference'))
      ]_vars

\* a support check settles, cancelled or not
AnyCheckSettled ==
    lastOp'.op \in {"checkSupport resolved", "checkSupport rejected",
                    "checkSupport cancelled"}

\* C31: a support check switches the mode to "glass" only when no preference
\* was stored and none has been chosen; once the user has chosen "blur" or
\* "reduced", or storage held such a value, no support check that settles
\* changes the mode, a check in flight when the choice was made included.
C31_ChoiceIsKept ==
    [][AnyCheckSettled =>
          /\ (transparencyMode' = "glass" /\ transparencyMode # "glass") =>
                 useTransparencyPreference.choice = Null
          /\ useTransparencyPreference.choice \in {"blur", "reduced"} =>
                 /\ transparencyMode' = useTransparencyPreference.choice
                 /\ useTransparencyPreference'.choice =
                        useTransparencyPreference.choice
      ]_vars
\* a check that was in flight when the user chose "blur" or "reduced" has
\* settled: it told nothing about glass and the mode is the one chosen
C31_Witness ==
    /\ lastOp.op = "checkSupport cancelled"
    /\ useTransparencyPreference.choice \in {"blur", "reduced"}
    /\ transparencyMode = useTransparencyPreference.choice
    /\ ~useTransparencyPreference.glassSupported.known

\* ----------------------------------------------------- useLiquidGlassEffect
\* C32: once every apply() run that was started has finished, the window
\* matches the latest transparencyMode: liquid glass is enabled only if that
\* mode is "glass" and glass is supported, and the window has no effects if
\* it is "reduced"; and no run makes an effect call after a run started later
\* has made its calls.
C32_WindowFollowsLatestMode ==
    /\ useLiquidGlassEffect.caller >= useLiquidGlassEffect.newest
    /\ useLiquidGlassEffect.runs = <<>> =>
          /\ useLiquidGlassEffect.window.liquidGlass =>
                 /\ useLiquidGlassEffect.transparencyMode = "glass"
                 /\ glassIsSupported(useLiquidGlassEffect)
          /\ useLiquidGlassEffect.transparencyMode = "reduced" =>
                 useLiquidGlassEffect.window.effects = NoWindowEffects

====
